---- MODULE Spec2Model ----
(***************************************************************************)
(* Staking actions of nuklaivm (WithdrawValidatorStake, DelegateUserStake, *)
(* UnstakeValidator) executed against the ledger (state.Mutable) and the   *)
(* process-wide Emission Engine.                                           *)
(***************************************************************************)
EXTENDS Integers, Sequences, FiniteSets, TLC

VARIABLES
    mu,         \* the ledger behind state.Mutable: balances and stake records
    emission,   \* the Emission Engine singleton
    hostScope,  \* whether the host's state.Mutable refuses keys outside StateKeys
    out,        \* what the last Execute returned, and the keys it touched
    conc,       \* the two executions the host runs concurrently, if any
    packer,     \* the last action put on the wire: its bytes, Size and decoding
    gen,        \* the last Genesis.Load: its genesis, the error and the state it left
    chains,     \* two chains' asset ledgers, the warp messages between them, the last result
    registry,   \* the action and auth registries, and the last lookup
    faucet,     \* the faucet's Manager, its callers and the transactions it submitted
    client      \* a JSONRPCClient, the node it queries and its last replies

\* the variables of the staking actions, and those of the other components
stakingVars == <<mu, emission, hostScope, out, conc>>
rest == <<gen, chains, registry, faucet, client>>

vars == <<mu, emission, hostScope, out, conc, packer, gen, chains, registry, faucet,
          client>>

(***************************************************************************)
(* Bounds of the model.                                                    *)
(***************************************************************************)
\* stand-in for math.MaxUint64: balances and amounts live in 0..MaxUint
MaxUint == 4
\* the last block height the model accepts
MaxHeight == 1
\* how far a node's wall clock may be from the last accepted block's timestamp
ClockSkew == 1
\* Unix time (seconds) of the block at height 0: block timestamps, and the wall
\* clocks around them, lie above every block height
GenesisTime == MaxHeight + ClockSkew + 3

(***************************************************************************)
(* Program constants.                                                      *)
(***************************************************************************)
NodeIDLen == 20
MinValidatorStake == 1
MinDelegatorStake == 1

Addrs == {"a1", "a2"}
EmptyAddress == "empty"

\* NodeID bytes as carried by an action: a byte string, kept as its length and
\* its content (two byte strings are equal iff both agree)
Bytes(len, content) == [len |-> len, content |-> content]
NodeBytes(n) == Bytes(NodeIDLen, n)
Nodes == {NodeBytes(1), NodeBytes(2)}
EmptyNodeID == NodeBytes(0)
ShortBytes == Bytes(1, 1)
LongBytes == Bytes(NodeIDLen + 1, 1)
NodeIDInputs == Nodes \cup {ShortBytes, LongBytes}

StakeIDs == {"s1", "s2"}

\* ids.ToNodeID: the bytes are a node id iff they are NodeIDLen long
ToNodeID(bytes) ==
    IF bytes.len = NodeIDLen
    THEN [nodeID |-> bytes, err |-> FALSE]
    ELSE [nodeID |-> EmptyNodeID, err |-> TRUE]

(***************************************************************************)
(* Storage Key Layer.                                                      *)
(***************************************************************************)
BalanceKey(addr) == [kind |-> "balance", addr |-> addr, node |-> EmptyNodeID, id |-> ""]
RegisterValidatorStakeKey(nodeID) ==
    [kind |-> "validator", addr |-> EmptyAddress, node |-> nodeID, id |-> ""]
DelegateUserStakeKey(addr, nodeID) ==
    [kind |-> "delegate", addr |-> addr, node |-> nodeID, id |-> ""]
StakeKey(stake) == [kind |-> "stake", addr |-> EmptyAddress, node |-> EmptyNodeID, id |-> stake]

NoValidatorStake ==
    [exists |-> FALSE, stakeStartBlock |-> 0, stakeEndBlock |-> 0, stakedAmount |-> 0,
     delegationFeeRate |-> 0, rewardAddress |-> EmptyAddress, ownerAddress |-> EmptyAddress]
NoDelegateStake ==
    [exists |-> FALSE, stakeStartBlock |-> 0, stakeEndBlock |-> 0, stakedAmount |-> 0,
     rewardAddress |-> EmptyAddress, ownerAddress |-> EmptyAddress]
NoStake == [exists |-> FALSE, nodeID |-> EmptyNodeID, owner |-> EmptyAddress]

\* the engine's entry for a validator it does not track
NoValidator == [tracked |-> FALSE, stakedAmount |-> 0, reward |-> 0]

(***************************************************************************)
(* The host's state.Mutable: a key outside the action's StateKeys is       *)
(* refused when the host checks scope, and served otherwise.               *)
(***************************************************************************)
InScope(x, key) == (~x.hostScope) \/ key \in x.keys

Touch(x, key) == [x EXCEPT !.touched = @ \cup {key}]

\* math.Add64 / math.Sub on uint64
Add64(a, b) == IF a + b > MaxUint THEN [v |-> 0, err |-> TRUE] ELSE [v |-> a + b, err |-> FALSE]
Sub64(a, b) == IF b > a THEN [v |-> 0, err |-> TRUE] ELSE [v |-> a - b, err |-> FALSE]

\* the rejection payloads of the three actions (the Output... byte strings)
DomainRejections ==
    {"OutputInvalidNodeID", "OutputValidatorNotYetRegistered", "OutputUserAlreadyStaked",
     "OutputDelegateStakedAmountInvalid", "OutputInvalidStakeEndBlock",
     "OutputInvalidStakeStartBlock", "OutputStakeMissing", "OutputUnauthorized",
     "OutputStakeNotStarted", "OutputDifferentNodeIDThanStaked",
     "OutputValidatorAlreadyRegistered"}

\* whether an output holds no byte: the nil output of a success holds none, a
\* rejection payload and the bytes of an error message hold some
OutputEmpty(output) == output = "nil"

\* the return of Execute
ReturnFatal(x, success, units, output) ==
    [x EXCEPT !.pc = "done",
              !.ret = [success |-> success, units |-> units, output |-> output, value |-> 0,
                       err |-> IF success THEN "nil" ELSE output]]
Return(x, success, units, output) ==
    [x EXCEPT !.pc = "done",
              !.ret = [success |-> success, units |-> units, output |-> output, value |-> 0, err |-> "nil"]]

NoReturn == [success |-> FALSE, units |-> "", output |-> "", value |-> 0, err |-> "nil"]

(***************************************************************************)
(* Emission Engine (process-wide singleton).                               *)
(***************************************************************************)
GetLastAcceptedBlockHeight(e) == e.lastAcceptedBlockHeight
GetLastAcceptedBlockTimestamp(e) == e.lastAcceptedBlockTimestamp

\* Emission.WithdrawValidatorStake: the validator must be tracked; it is removed
\* and its accumulated reward returned
EmissionWithdrawValidatorStake(e, nodeID) ==
    IF ~e.validators[nodeID].tracked
    THEN [e |-> e, rewardAmount |-> 0, err |-> "ErrValidatorNotFound"]
    ELSE [e |-> [e EXCEPT !.validators[nodeID] = NoValidator],
          rewardAmount |-> e.validators[nodeID].reward,
          err |-> "nil"]

\* Emission.DelegateUserStake: the validator must be tracked and the delegator
\* must not already delegate to it; the delegation is recorded
EmissionDelegateUserStake(e, nodeID, actor, stakeStartBlock, stakeEndBlock, stakedAmount) ==
    IF ~e.validators[nodeID].tracked
    THEN [e |-> e, err |-> "ErrValidatorNotFound"]
    ELSE IF <<actor, nodeID>> \in e.delegators
    THEN [e |-> e, err |-> "ErrDelegatorAlreadyStaked"]
    ELSE [e |-> [e EXCEPT !.delegators = @ \cup {<<actor, nodeID>>}], err |-> "nil"]

\* Emission.RegisterValidatorStake: one active stake per node id
EmissionRegisterValidatorStake(e, nodeID, stakedAmount) ==
    [e EXCEPT !.validators[nodeID] =
        [tracked |-> TRUE, stakedAmount |-> stakedAmount, reward |-> 0]]

(***************************************************************************)
(* storage: a call on a key whose backing store fails, or that the host    *)
(* refuses, returns an error; a read then returns the zero record          *)
(* (exists = false) together with that error.                              *)
(***************************************************************************)
StorageErr(x, key) ==
    IF key \in x.failing THEN "ErrStorageIO"
    ELSE IF ~InScope(x, key) THEN "ErrInvalidKeyOrPermission"
    ELSE "nil"

GetRegisterValidatorStake(x, m, nodeID) ==
    LET err == StorageErr(x, RegisterValidatorStakeKey(nodeID))
    IN  IF err = "nil"
        THEN [rec |-> m.validator[nodeID], err |-> "nil"]
        ELSE [rec |-> NoValidatorStake, err |-> err]

GetDelegateUserStake(x, m, actor, nodeID) ==
    LET err == StorageErr(x, DelegateUserStakeKey(actor, nodeID))
    IN  IF err = "nil"
        THEN [rec |-> m.delegate[<<actor, nodeID>>], err |-> "nil"]
        ELSE [rec |-> NoDelegateStake, err |-> err]

GetStake(x, m, stake) ==
    LET err == StorageErr(x, StakeKey(stake))
    IN  IF err = "nil"
        THEN [rec |-> m.stake[stake], err |-> "nil"]
        ELSE [rec |-> NoStake, err |-> err]

\* storage.AddBalance, its read half: the balance is read and the sum computed
AddBalanceGet(x, m, addr, amount) ==
    LET err == StorageErr(x, BalanceKey(addr))
    IN  IF err # "nil"
        THEN [nbal |-> 0, err |-> err]
        ELSE LET s == Add64(m.balance[addr], amount)
             IN  IF s.err THEN [nbal |-> 0, err |-> "ErrInvalidBalance"]
                          ELSE [nbal |-> s.v, err |-> "nil"]

\* storage.SubBalance, its read half
SubBalanceGet(x, m, addr, amount) ==
    LET err == StorageErr(x, BalanceKey(addr))
    IN  IF err # "nil"
        THEN [nbal |-> 0, err |-> err]
        ELSE LET s == Sub64(m.balance[addr], amount)
             IN  IF s.err THEN [nbal |-> 0, err |-> "ErrInvalidBalance"]
                          ELSE [nbal |-> s.v, err |-> "nil"]

\* the write half of AddBalance / SubBalance (setBalance)
SetBalance(m, addr, nbal) == [m EXCEPT !.balance[addr] = nbal]

DeleteRegisterValidatorStake(m, nodeID) == [m EXCEPT !.validator[nodeID] = NoValidatorStake]

SetDelegateUserStake(m, actor, nodeID, stakeStartBlock, stakeEndBlock, stakedAmount, rewardAddress) ==
    [m EXCEPT !.delegate[<<actor, nodeID>>] =
        [exists |-> TRUE, stakeStartBlock |-> stakeStartBlock, stakeEndBlock |-> stakeEndBlock,
         stakedAmount |-> stakedAmount, rewardAddress |-> rewardAddress, ownerAddress |-> actor]]

ErrBytes(err) == err

(***************************************************************************)
(* WithdrawValidatorStake                                                  *)
(***************************************************************************)
WithdrawStateKeys(actor, nodeBytes) ==
    {BalanceKey(actor), RegisterValidatorStakeKey(ToNodeID(nodeBytes).nodeID)}

WithdrawMaxComputeUnits == "WithdrawValidatorStakeComputeUnits"

\* the actor is not the recorded owner of the validator stake
WithdrawNotOwnerNoCheck(ownerAddress, actor) == FALSE
WithdrawNotOwner(ownerAddress, actor) == ownerAddress # actor

\* the wall clock or the last accepted block's timestamp is before the stake end,
\* the recorded stake end being read as a Unix time in seconds
WithdrawNotEnded(currentTime, lastBlockTime, endTime) ==
    currentTime < endTime \/ lastBlockTime < endTime

\* the first credit: the engine's reward to the record's reward address
WithdrawRewardCreditToActor(x) == [addr |-> x.actor, amount |-> x.rewardAmount]
WithdrawRewardCredit(x) == [addr |-> x.recRewardAddress, amount |-> x.rewardAmount]

\* the second credit: the staked amount back to the actor
WithdrawStakeCredit(x) == [addr |-> x.actor, amount |-> x.recStakedAmount]

\* the validator stake record is deleted between the two credits
WithdrawDeleteSkipped(x, m) == m
WithdrawDelete(x, m) == DeleteRegisterValidatorStake(m, x.nodeID)

\* Execute up to the time check: node id, record, owner, stake end
WithdrawCheck(x, st) ==
    LET n == ToNodeID(x.nodeBytes)
        g == GetRegisterValidatorStake(x, st.mu, n.nodeID)
        rec == g.rec
        y == Touch(x, RegisterValidatorStakeKey(n.nodeID))
        currentTime == x.clock
        lastBlockTime == GetLastAcceptedBlockTimestamp(st.emission)
        endTime == rec.stakeEndBlock
    IN  IF n.err
        THEN Return(x, FALSE, "WithdrawValidatorStakeComputeUnits", "OutputInvalidNodeID")
        ELSE IF ~rec.exists
        THEN Return(y, FALSE, "WithdrawValidatorStakeComputeUnits", "OutputValidatorAlreadyRegistered")
        ELSE IF WithdrawNotOwner(rec.ownerAddress, x.actor)
        THEN Return(y, FALSE, "WithdrawValidatorStakeComputeUnits", "OutputUnauthorized")
        ELSE IF WithdrawNotEnded(currentTime, lastBlockTime, endTime)
        THEN Return(y, FALSE, "WithdrawValidatorStakeComputeUnits", "OutputStakeNotStarted")
        ELSE [y EXCEPT !.pc = "emission", !.nodeID = n.nodeID,
                       !.recStakedAmount = rec.stakedAmount,
                       !.recRewardAddress = rec.rewardAddress]

\* one statement of WithdrawValidatorStake.Execute
WithdrawStep(x, st) ==
    CASE x.pc = "check" -> [x |-> WithdrawCheck(x, st), st |-> st]
      [] x.pc = "emission" ->
            LET w == EmissionWithdrawValidatorStake(st.emission, x.nodeID)
            IN  IF w.err # "nil"
                THEN [x |-> Return(x, FALSE, "WithdrawValidatorStakeComputeUnits", ErrBytes(w.err)),
                      st |-> st]
                ELSE [x |-> [x EXCEPT !.pc = "addRewardGet", !.rewardAmount = w.rewardAmount],
                      st |-> [st EXCEPT !.emission = w.e]]
      [] x.pc = "addRewardGet" ->
            LET c == WithdrawRewardCredit(x)
                a == AddBalanceGet(x, st.mu, c.addr, c.amount)
                y == Touch(x, BalanceKey(c.addr))
            IN  IF a.err # "nil"
                THEN [x |-> Return(y, FALSE, "WithdrawValidatorStakeComputeUnits", ErrBytes(a.err)),
                      st |-> st]
                ELSE [x |-> [y EXCEPT !.pc = "addRewardSet", !.nbal = a.nbal], st |-> st]
      [] x.pc = "addRewardSet" ->
            [x |-> [x EXCEPT !.pc = "delete"],
             st |-> [st EXCEPT !.mu = SetBalance(st.mu, WithdrawRewardCredit(x).addr, x.nbal)]]
      [] x.pc = "delete" ->
            LET err == StorageErr(x, RegisterValidatorStakeKey(x.nodeID))
            IN  IF err # "nil"
                THEN [x |-> Return(x, FALSE, "WithdrawValidatorStakeComputeUnits", ErrBytes(err)),
                      st |-> st]
                ELSE [x |-> [x EXCEPT !.pc = "addStakeGet"],
                      st |-> [st EXCEPT !.mu = WithdrawDelete(x, st.mu)]]
      [] x.pc = "addStakeGet" ->
            LET c == WithdrawStakeCredit(x)
                a == AddBalanceGet(x, st.mu, c.addr, c.amount)
                y == Touch(x, BalanceKey(c.addr))
            IN  IF a.err # "nil"
                THEN [x |-> Return(y, FALSE, "WithdrawValidatorStakeComputeUnits", ErrBytes(a.err)),
                      st |-> st]
                ELSE [x |-> [y EXCEPT !.pc = "addStakeSet", !.nbal = a.nbal], st |-> st]
      [] x.pc = "addStakeSet" ->
            [x |-> [Return(x, TRUE, "WithdrawValidatorStakeComputeUnits", "RegisterStakeResult")
                        EXCEPT !.ret.value = x.recStakedAmount],
             st |-> [st EXCEPT !.mu = SetBalance(st.mu, WithdrawStakeCredit(x).addr, x.nbal)]]

(***************************************************************************)
(* DelegateUserStake                                                       *)
(***************************************************************************)
DelegateStateKeys(actor, nodeBytes) ==
    LET nodeID == ToNodeID(nodeBytes).nodeID
    IN  {BalanceKey(actor), DelegateUserStakeKey(actor, nodeID), RegisterValidatorStakeKey(nodeID)}

DelegateMaxComputeUnits == "DelegateUserStakeComputeUnits"

\* the validator the user delegates to has no stake record
DelegateValidatorMissingNever(rec) == FALSE
DelegateValidatorMissing(rec) == ~rec.exists

\* the user already has a delegation record for this validator
DelegateAlreadyStakedNever(rec) == FALSE
DelegateAlreadyStaked(rec) == rec.exists

DelegateAmountInvalid(stakedAmount) == stakedAmount < MinDelegatorStake

DelegateEndBlockInvalidStrict(stakeStartBlock, stakeEndBlock) == stakeEndBlock < stakeStartBlock
DelegateEndBlockInvalid(stakeStartBlock, stakeEndBlock) == stakeEndBlock <= stakeStartBlock

DelegateStartBlockInvalid(stakeStartBlock, height) == stakeStartBlock < height

\* the debit: the staked amount out of the actor's balance
DelegateDebitNothing(x) == [addr |-> x.actor, amount |-> 0]
DelegateDebit(x) == [addr |-> x.actor, amount |-> x.stakedAmount]

\* Execute up to the start-block check: node id, both records, amount, block range
DelegateCheck(x, st) ==
    LET n == ToNodeID(x.nodeBytes)
        v == GetRegisterValidatorStake(x, st.mu, n.nodeID)
        y == Touch(x, RegisterValidatorStakeKey(n.nodeID))
        d == GetDelegateUserStake(y, st.mu, x.actor, n.nodeID)
        z == Touch(y, DelegateUserStakeKey(x.actor, n.nodeID))
    IN  IF n.err
        THEN Return(x, FALSE, "DelegateUserStakeComputeUnits", "OutputInvalidNodeID")
        ELSE IF DelegateValidatorMissing(v.rec)
        THEN Return(y, FALSE, "RegisterValidatorStakeComputeUnits", "OutputValidatorNotYetRegistered")
        ELSE IF DelegateAlreadyStaked(d.rec)
        THEN Return(z, FALSE, "DelegateUserStakeComputeUnits", "OutputUserAlreadyStaked")
        ELSE IF DelegateAmountInvalid(x.stakedAmount)
        THEN Return(z, FALSE, "DelegateUserStakeComputeUnits", "OutputDelegateStakedAmountInvalid")
        ELSE IF DelegateEndBlockInvalid(x.stakeStartBlock, x.stakeEndBlock)
        THEN Return(z, FALSE, "DelegateUserStakeComputeUnits", "OutputInvalidStakeEndBlock")
        ELSE IF DelegateStartBlockInvalid(x.stakeStartBlock, GetLastAcceptedBlockHeight(st.emission))
        THEN Return(z, FALSE, "DelegateUserStakeComputeUnits", "OutputInvalidStakeStartBlock")
        ELSE [z EXCEPT !.pc = "emission", !.nodeID = n.nodeID]

\* one statement of DelegateUserStake.Execute
DelegateStep(x, st) ==
    CASE x.pc = "check" -> [x |-> DelegateCheck(x, st), st |-> st]
      [] x.pc = "emission" ->
            LET w == EmissionDelegateUserStake(st.emission, x.nodeID, x.actor,
                                               x.stakeStartBlock, x.stakeEndBlock, x.stakedAmount)
            IN  IF w.err # "nil"
                THEN [x |-> Return(x, FALSE, "DelegateUserStakeComputeUnits", ErrBytes(w.err)),
                      st |-> st]
                ELSE [x |-> [x EXCEPT !.pc = "subGet"], st |-> [st EXCEPT !.emission = w.e]]
      [] x.pc = "subGet" ->
            LET c == DelegateDebit(x)
                a == SubBalanceGet(x, st.mu, c.addr, c.amount)
                y == Touch(x, BalanceKey(c.addr))
            IN  IF a.err # "nil"
                THEN [x |-> Return(y, FALSE, "DelegateUserStakeComputeUnits", ErrBytes(a.err)),
                      st |-> st]
                ELSE [x |-> [y EXCEPT !.pc = "subSet", !.nbal = a.nbal], st |-> st]
      [] x.pc = "subSet" ->
            [x |-> [x EXCEPT !.pc = "setDelegate"],
             st |-> [st EXCEPT !.mu = SetBalance(st.mu, DelegateDebit(x).addr, x.nbal)]]
      [] x.pc = "setDelegate" ->
            LET err == StorageErr(x, DelegateUserStakeKey(x.actor, x.nodeID))
            IN  IF err # "nil"
                THEN [x |-> Return(x, FALSE, "DelegateUserStakeComputeUnits", ErrBytes(err)),
                      st |-> st]
                ELSE [x |-> Return(x, TRUE, "DelegateUserStakeComputeUnits", "nil"),
                      st |-> [st EXCEPT !.mu = SetDelegateUserStake(st.mu, x.actor, x.nodeID,
                                        x.stakeStartBlock, x.stakeEndBlock, x.stakedAmount,
                                        x.rewardAddress)]]

(***************************************************************************)
(* UnstakeValidator                                                        *)
(***************************************************************************)
UnstakeStateKeys(actor, stake) == {BalanceKey(actor), StakeKey(stake)}

UnstakeMaxComputeUnits == "UnstakeValidatorComputeUnits"

\* the actor is not the recorded owner of the stake
UnstakeNotOwnerNoCheck(owner, actor) == FALSE
UnstakeNotOwner(owner, actor) == owner # actor

\* UnstakeValidator.Execute: one read, no write
UnstakeStep(x, st) ==
    LET g == GetStake(x, st.mu, x.stake)
        y == Touch(x, StakeKey(x.stake))
    IN  [x |-> IF g.err # "nil"
               THEN Return(y, FALSE, "UnstakeValidatorComputeUnits", ErrBytes(g.err))
               ELSE IF ~g.rec.exists
               THEN Return(y, FALSE, "UnstakeValidatorComputeUnits", "OutputStakeMissing")
               ELSE IF UnstakeNotOwner(g.rec.owner, x.actor)
               THEN Return(y, FALSE, "UnstakeValidatorComputeUnits", "OutputUnauthorized")
               ELSE IF g.rec.nodeID # x.nodeBytes
               THEN Return(y, FALSE, "UnstakeValidatorComputeUnits", "OutputDifferentNodeIDThanStaked")
               ELSE Return(y, TRUE, "UnstakeValidatorComputeUnits", "nil"),
         st |-> st]

(***************************************************************************)
(* Execution contexts: one Execute call, its arguments, locals and return. *)
(***************************************************************************)
Context(op, actor, nodeBytes, keys, scope) ==
    [op |-> op, actor |-> actor, nodeBytes |-> nodeBytes, stake |-> "",
     stakeStartBlock |-> 0, stakeEndBlock |-> 0, stakedAmount |-> 0,
     rewardAddress |-> EmptyAddress, clock |-> 0,
     hostScope |-> scope, failing |-> {}, keys |-> keys, touched |-> {},
     pc |-> "check", nodeID |-> EmptyNodeID, recStakedAmount |-> 0,
     recRewardAddress |-> EmptyAddress, rewardAmount |-> 0, nbal |-> 0,
     ret |-> NoReturn]

WithdrawContext(actor, nodeBytes, clock, scope) ==
    [Context("withdraw", actor, nodeBytes, WithdrawStateKeys(actor, nodeBytes), scope)
        EXCEPT !.clock = clock]

DelegateContext(actor, nodeBytes, stakeStartBlock, stakeEndBlock, stakedAmount, rewardAddress, scope) ==
    [Context("delegate", actor, nodeBytes, DelegateStateKeys(actor, nodeBytes), scope)
        EXCEPT !.stakeStartBlock = stakeStartBlock, !.stakeEndBlock = stakeEndBlock,
               !.stakedAmount = stakedAmount, !.rewardAddress = rewardAddress]

UnstakeContext(actor, stake, nodeBytes, scope) ==
    [Context("unstake", actor, nodeBytes, UnstakeStateKeys(actor, stake), scope)
        EXCEPT !.stake = stake]

Step(x, st) ==
    CASE x.op = "withdraw" -> WithdrawStep(x, st)
      [] x.op = "delegate" -> DelegateStep(x, st)
      [] x.op = "unstake" -> UnstakeStep(x, st)

RECURSIVE Execute(_, _)
\* Execute run to its return, on a host that runs it alone
Execute(x, st) ==
    IF x.pc = "done" THEN [x |-> x, st |-> st]
    ELSE LET r == Step(x, st) IN Execute(r.x, r.st)

\* what the model keeps of a finished Execute
Outcome(x) ==
    [op |-> x.op, success |-> x.ret.success, units |-> x.ret.units,
     output |-> x.ret.output, value |-> x.ret.value, err |-> x.ret.err,
     rewardAmount |-> x.rewardAmount, undeclared |-> x.touched \ x.keys,
     storageErr |-> {StorageErr(x, k) : k \in x.touched} \ {"nil"},
     nodeID |-> ToNodeID(x.nodeBytes).nodeID]

State == [mu |-> mu, emission |-> emission]

\* the wall clocks a node executing on top of the last accepted block may show
Clocks(e) ==
    (GetLastAcceptedBlockTimestamp(e) - ClockSkew)..(GetLastAcceptedBlockTimestamp(e) + ClockSkew)

(***************************************************************************)
(* RegisterValidatorStake and the per-block callback of the engine.        *)
(***************************************************************************)
\* the stake ends a registration may name: a block height, and a value in the
\* range of the block timestamps
StakeEnds == {MaxHeight, GenesisTime + 1}

\* the reward addresses transactions name: the actor's own for a1, another's for a2
RewardAddrs == {"a1"}

\* the amounts a registration stakes
RegisterAmounts == {2}

\* the node ids that register as validators
RegisterNodes == {NodeBytes(1)}

RegisterValid(actor, nodeID, stakeStartBlock, stakeEndBlock, stakedAmount) ==
    /\ ~mu.validator[nodeID].exists
    /\ ~emission.validators[nodeID].tracked
    /\ stakedAmount >= MinValidatorStake
    /\ stakeEndBlock > stakeStartBlock
    /\ stakeStartBlock >= GetLastAcceptedBlockHeight(emission)
    /\ mu.balance[actor] >= stakedAmount

RegisterValidatorStake(actor, nodeID, stakeEndBlock, stakedAmount, rewardAddress) ==
    LET stakeStartBlock == GetLastAcceptedBlockHeight(emission)
        ok == RegisterValid(actor, nodeID, stakeStartBlock, stakeEndBlock, stakedAmount)
    IN  /\ mu' = IF ok
                 THEN [mu EXCEPT !.balance[actor] = @ - stakedAmount,
                                 !.validator[nodeID] =
                                    [exists |-> TRUE, stakeStartBlock |-> stakeStartBlock,
                                     stakeEndBlock |-> stakeEndBlock, stakedAmount |-> stakedAmount,
                                     delegationFeeRate |-> 0, rewardAddress |-> rewardAddress,
                                     ownerAddress |-> actor]]
                 ELSE mu
        /\ emission' = IF ok THEN EmissionRegisterValidatorStake(emission, nodeID, stakedAmount)
                             ELSE emission
        /\ out' = [op |-> "register", success |-> ok,
                   units |-> "RegisterValidatorStakeComputeUnits",
                   output |-> IF ok THEN "RegisterStakeResult" ELSE "rejected",
                   value |-> IF ok THEN stakedAmount ELSE 0, err |-> "nil",
                   rewardAmount |-> 0, undeclared |-> {}, storageErr |-> {},
                   nodeID |-> EmptyNodeID]
        /\ UNCHANGED <<hostScope, conc, packer, rest>>

\* the engine's per-block callback: height and timestamp advance, and the
\* tracked validators accumulate reward
AcceptBlock(accrued) ==
    /\ GetLastAcceptedBlockHeight(emission) < MaxHeight
    /\ emission' = [emission EXCEPT
            !.lastAcceptedBlockHeight = @ + 1,
            !.lastAcceptedBlockTimestamp = @ + 1,
            !.validators = [n \in Nodes |->
                IF @[n].tracked
                THEN [@[n] EXCEPT !.reward = @ + accrued[n]]
                ELSE @[n]]]
    /\ out' = [op |-> "block", success |-> TRUE, units |-> "",
               output |-> "", value |-> 0, err |-> "nil",
                   rewardAmount |-> 0, undeclared |-> {}, storageErr |-> {},
                   nodeID |-> EmptyNodeID]
    /\ UNCHANGED <<mu, hostScope, conc, packer, rest>>

(***************************************************************************)
(* The actions: one Execute per transaction, run alone.                    *)
(***************************************************************************)
WithdrawValidatorStake(actor, nodeBytes, clock) ==
    LET r == Execute(WithdrawContext(actor, nodeBytes, clock, hostScope), State)
    IN  /\ mu' = r.st.mu
        /\ emission' = r.st.emission
        /\ out' = Outcome(r.x)
        /\ UNCHANGED <<hostScope, conc, packer, rest>>

DelegateUserStake(actor, nodeBytes, stakeStartBlock, stakeEndBlock, stakedAmount, rewardAddress) ==
    LET r == Execute(DelegateContext(actor, nodeBytes, stakeStartBlock, stakeEndBlock,
                                     stakedAmount, rewardAddress, hostScope), State)
    IN  /\ mu' = r.st.mu
        /\ emission' = r.st.emission
        /\ out' = Outcome(r.x)
        /\ UNCHANGED <<hostScope, conc, packer, rest>>

UnstakeValidator(actor, stake, nodeBytes) ==
    LET r == Execute(UnstakeContext(actor, stake, nodeBytes, hostScope), State)
    IN  /\ mu' = r.st.mu
        /\ emission' = r.st.emission
        /\ out' = Outcome(r.x)
        /\ UNCHANGED <<hostScope, conc, packer, rest>>

(***************************************************************************)
(* The host's concurrent execution: two transactions whose declared state  *)
(* keys are disjoint run statement by statement in any interleaving; the   *)
(* engine's calls are serialized by its lock, one call being one step.     *)
(***************************************************************************)
IdleContext == [Context("idle", EmptyAddress, EmptyNodeID, {}, FALSE) EXCEPT !.pc = "done"]

\* the transactions the host may pick for a concurrent pair
ConcTxs ==
    {WithdrawContext(actor, nodeBytes, GetLastAcceptedBlockTimestamp(emission), hostScope) :
        actor \in Addrs, nodeBytes \in Nodes}
    \cup
    {DelegateContext(actor, nodeBytes, GetLastAcceptedBlockHeight(emission),
                     GetLastAcceptedBlockHeight(emission) + 1, 2, rewardAddress, hostScope) :
        actor \in Addrs, nodeBytes \in Nodes, rewardAddress \in {"a1"}}

\* the host starts two transactions together only if their state keys are disjoint
Begin(x1, x2) ==
    /\ conc.phase = "idle"
    /\ x1.keys \cap x2.keys = {}
    /\ conc' = [phase |-> "running", st0 |-> State, tx |-> <<x1, x2>>, x |-> <<x1, x2>>]
    /\ UNCHANGED <<mu, emission, hostScope, out, packer, rest>>

\* one statement of one of the two executions
ConcStep(i) ==
    /\ conc.phase = "running"
    /\ conc.x[i].pc # "done"
    /\ LET r == Step(conc.x[i], State)
           xs == [conc.x EXCEPT ![i] = r.x]
       IN  /\ mu' = r.st.mu
           /\ emission' = r.st.emission
           /\ conc' = [conc EXCEPT !.x = xs,
                                   !.phase = IF \A j \in 1..2 : xs[j].pc = "done"
                                             THEN "finished" ELSE "running"]
    /\ UNCHANGED <<hostScope, out, packer, rest>>

\* the ledger and engine after the two transactions of the pair run one after the other
Serial(first, second, st0) == Execute(second, Execute(first, st0).st).st

\* the action fields a DelegateUserStake transaction may carry
DelegateStarts(e) ==
    {h \in 0..MaxHeight : h + 1 >= GetLastAcceptedBlockHeight(e) /\ h <= GetLastAcceptedBlockHeight(e)}
DelegateAmounts == {0, 2}
DelegateNodeIDs == RegisterNodes \cup {ShortBytes}

(***************************************************************************)
(* Binary action encoding: codec.Packer and the Size, Marshal and          *)
(* Unmarshal of the three actions. The wire is the sequence of the fields  *)
(* written, each with the number of bytes it takes and its value.          *)
(***************************************************************************)
Uint64Len == 8
IntLen == 4
IDLen == 32
AddressLen == 33

EmptyBytes == Bytes(0, 0)
EmptyID == ""

Field(n, v) == [n |-> n, v |-> v]

\* PackBytes: a 4-byte length, then the bytes
PackBytes(buf, b) == buf \o <<Field(IntLen, b.len), Field(b.len, b.content)>>
PackUint64(buf, v) == Append(buf, Field(Uint64Len, v))
PackID(buf, id) == Append(buf, Field(IDLen, id))
PackAddress(buf, addr) == Append(buf, Field(AddressLen, addr))

\* the number of bytes on the wire
RECURSIVE WireLen(_)
WireLen(buf) == IF buf = <<>> THEN 0 ELSE Head(buf).n + WireLen(Tail(buf))

\* a packer reading buf; the first error met is kept
NewReader(buf) == [buf |-> buf, pos |-> 1, err |-> "nil"]
AddErr(p, err) == IF p.err = "nil" THEN [p EXCEPT !.err = err] ELSE p

\* the next field of n bytes, if the reader has not failed and the wire holds it
HasField(p, n) == p.err = "nil" /\ p.pos <= Len(p.buf) /\ p.buf[p.pos].n = n

\* UnpackBytes(limit, required, dest)
UnpackBytes(p, limit, required) ==
    LET r == IF ~HasField(p, IntLen)
             THEN [p |-> AddErr(p, "ErrInsufficientLength"), v |-> EmptyBytes]
             ELSE LET l == p.buf[p.pos].v
                  IN  IF l > limit
                      THEN [p |-> AddErr(p, "ErrOversized"), v |-> EmptyBytes]
                      ELSE IF l = 0
                      THEN [p |-> [p EXCEPT !.pos = @ + 2], v |-> EmptyBytes]
                      ELSE [p |-> [p EXCEPT !.pos = @ + 2], v |-> Bytes(l, p.buf[p.pos + 1].v)]
    IN  IF required /\ r.v.len = 0
        THEN [r EXCEPT !.p = AddErr(@, "ErrFieldNotPopulated")]
        ELSE r

\* UnpackUint64(required)
UnpackUint64(p, required) ==
    LET r == IF ~HasField(p, Uint64Len)
             THEN [p |-> AddErr(p, "ErrInsufficientLength"), v |-> 0]
             ELSE [p |-> [p EXCEPT !.pos = @ + 1], v |-> p.buf[p.pos].v]
    IN  IF required /\ r.v = 0
        THEN [r EXCEPT !.p = AddErr(@, "ErrFieldNotPopulated")]
        ELSE r

\* UnpackID(required, dest)
UnpackID(p, required) ==
    LET r == IF ~HasField(p, IDLen)
             THEN [p |-> AddErr(p, "ErrInsufficientLength"), v |-> EmptyID]
             ELSE [p |-> [p EXCEPT !.pos = @ + 1], v |-> p.buf[p.pos].v]
    IN  IF required /\ r.v = EmptyID
        THEN [r EXCEPT !.p = AddErr(@, "ErrFieldNotPopulated")]
        ELSE r

\* UnpackAddress(dest): the empty address is refused
UnpackAddress(p) ==
    LET r == IF ~HasField(p, AddressLen)
             THEN [p |-> AddErr(p, "ErrInsufficientLength"), v |-> EmptyAddress]
             ELSE [p |-> [p EXCEPT !.pos = @ + 1], v |-> p.buf[p.pos].v]
    IN  IF r.v = EmptyAddress
        THEN [r EXCEPT !.p = AddErr(@, "ErrFieldNotPopulated")]
        ELSE r

\* an action value: the fields of the three structs
ActionValue(op, nodeID, stake, stakeStartBlock, stakeEndBlock, stakedAmount, rewardAddress) ==
    [op |-> op, NodeID |-> nodeID, Stake |-> stake, StakeStartBlock |-> stakeStartBlock,
     StakeEndBlock |-> stakeEndBlock, StakedAmount |-> stakedAmount,
     RewardAddress |-> rewardAddress]

WithdrawSize(u) == NodeIDLen
WithdrawMarshal(u) == PackBytes(<<>>, u.NodeID)
UnmarshalWithdrawValidatorStake(buf) ==
    LET n == UnpackBytes(NewReader(buf), NodeIDLen, TRUE)
    IN  [action |-> ActionValue("withdraw", n.v, EmptyID, 0, 0, 0, EmptyAddress),
         err |-> n.p.err]

DelegateSize(s) == NodeIDLen + 3 * Uint64Len + AddressLen
DelegateMarshal(s) ==
    PackAddress(PackUint64(PackUint64(PackUint64(PackBytes(<<>>, s.NodeID),
        s.StakeStartBlock), s.StakeEndBlock), s.StakedAmount), s.RewardAddress)
UnmarshalDelegateUserStake(buf) ==
    LET n == UnpackBytes(NewReader(buf), NodeIDLen, TRUE)
        start == UnpackUint64(n.p, TRUE)
        end == UnpackUint64(start.p, TRUE)
        amount == UnpackUint64(end.p, TRUE)
        reward == UnpackAddress(amount.p)
    IN  [action |-> ActionValue("delegate", n.v, EmptyID, start.v, end.v, amount.v, reward.v),
         err |-> reward.p.err]

UnstakeSize(u) == IDLen
UnstakeMarshal(u) == PackBytes(PackID(<<>>, u.Stake), u.NodeID)
UnmarshalUnstakeValidator(buf) ==
    LET stake == UnpackID(NewReader(buf), TRUE)
        n == UnpackBytes(stake.p, NodeIDLen, FALSE)
    IN  [action |-> ActionValue("unstake", n.v, stake.v, 0, 0, 0, EmptyAddress),
         err |-> n.p.err]

\* the action values put on the wire
CodecNodeIDs == Nodes \cup {EmptyBytes, ShortBytes, LongBytes}
WithdrawValues ==
    {ActionValue("withdraw", n, EmptyID, 0, 0, 0, EmptyAddress) : n \in CodecNodeIDs}
DelegateValues ==
    {ActionValue("delegate", n, EmptyID, start, end, amount, reward) :
        n \in CodecNodeIDs, start \in 0..MaxHeight, end \in 0..(MaxHeight + 1),
        amount \in 0..2, reward \in Addrs}
UnstakeValues ==
    {ActionValue("unstake", n, stake, 0, 0, 0, EmptyAddress) :
        n \in CodecNodeIDs, stake \in StakeIDs}

NoPacker ==
    [action |-> ActionValue("none", EmptyBytes, EmptyID, 0, 0, 0, EmptyAddress),
     size |-> 0, wire |-> <<>>,
     decoded |-> [action |-> ActionValue("none", EmptyBytes, EmptyID, 0, 0, 0, EmptyAddress),
                  err |-> "nil"]]

\* an action is sized, marshalled and unmarshalled from the bytes written
WithdrawCodec(u) ==
    /\ packer' = [action |-> u, size |-> WithdrawSize(u), wire |-> WithdrawMarshal(u),
                  decoded |-> UnmarshalWithdrawValidatorStake(WithdrawMarshal(u))]
    /\ UNCHANGED <<stakingVars, rest>>

DelegateCodec(s) ==
    /\ packer' = [action |-> s, size |-> DelegateSize(s), wire |-> DelegateMarshal(s),
                  decoded |-> UnmarshalDelegateUserStake(DelegateMarshal(s))]
    /\ UNCHANGED <<stakingVars, rest>>

UnstakeCodec(u) ==
    /\ packer' = [action |-> u, size |-> UnstakeSize(u), wire |-> UnstakeMarshal(u),
                  decoded |-> UnmarshalUnstakeValidator(UnstakeMarshal(u))]
    /\ UNCHANGED <<stakingVars, rest>>

(***************************************************************************)
(* Genesis.Load: the allocations are written as native balances and the    *)
(* native asset is recorded with their sum as its supply.                  *)
(***************************************************************************)
\* the longest allocation list of a genesis
MaxAllocs == 3

HRP == "nuklai"

\* an address as a genesis file names it: a bech32 string, kept as its
\* human-readable part and the address its data encodes
Bech32(hrp, addr) == [hrp |-> hrp, data |-> addr]
AddressStrings == {Bech32(HRP, a) : a \in Addrs} \cup {Bech32("other", "a1")}

\* codec.ParseAddressBech32: the string must carry the expected HRP
ParseAddressBech32(hrp, saddr) ==
    IF saddr.hrp = hrp
    THEN [addr |-> saddr.data, err |-> "nil"]
    ELSE [addr |-> EmptyAddress, err |-> "ErrIncorrectHRP"]

\* the ledger before Load: no balance and no asset written
NoAsset == [exists |-> FALSE, supply |-> 0, owner |-> EmptyAddress, warp |-> FALSE]
EmptyLedger ==
    [balance |-> [a \in Addrs |-> 0], written |-> {}, asset |-> NoAsset]

\* storage.SetAsset of the native asset
SetAsset(m, supply, owner, warp) ==
    [m EXCEPT !.asset = [exists |-> TRUE, supply |-> supply, owner |-> owner, warp |-> warp]]

\* storage.SetBalance of Genesis.Load: the balance is overwritten
GenesisSetBalance(m, addr, balance) ==
    [m EXCEPT !.balance[addr] = balance, !.written = @ \cup {addr}]

\* the running supply after one more allocation, overflow checked
LoadSupplyUnchecked(supply, balance) ==
    [v |-> (supply + balance) % (MaxUint + 1), err |-> FALSE]
LoadSupply(supply, balance) == Add64(supply, balance)

RECURSIVE LoadAllocations(_, _, _)
\* the loop of Load over CustomAllocation, from the running supply and ledger
LoadAllocations(allocs, supply, m) ==
    IF allocs = <<>> THEN [m |-> m, supply |-> supply, err |-> "nil"]
    ELSE LET alloc == Head(allocs)
             a == ParseAddressBech32(HRP, alloc.Address)
             sum == LoadSupply(supply, alloc.Balance)
         IN  IF a.err # "nil" THEN [m |-> m, supply |-> supply, err |-> a.err]
             ELSE IF sum.err THEN [m |-> m, supply |-> supply, err |-> "ErrOverflow"]
             ELSE LoadAllocations(Tail(allocs), sum.v,
                                  GenesisSetBalance(m, a.addr, alloc.Balance))

\* Genesis.Load
Load(g, m) ==
    IF ~g.StateBranchFactorValid
    THEN [m |-> m, err |-> "ErrInvalidBranchFactor"]
    ELSE LET l == LoadAllocations(g.CustomAllocation, 0, m)
         IN  IF l.err # "nil"
             THEN [m |-> l.m, err |-> l.err]
             ELSE [m |-> SetAsset(l.m, l.supply, EmptyAddress, FALSE), err |-> "nil"]

\* the genesis files: a branch factor, allocations and the emission balancer
AllocationBalances == {1, MaxUint - 1}
Allocations ==
    [Address : AddressStrings, Balance : AllocationBalances]
AllocationLists ==
    UNION {[1..n -> Allocations] : n \in 0..MaxAllocs}
GenesisMaxSupply == MaxUint - 1
Geneses ==
    [StateBranchFactorValid : BOOLEAN, CustomAllocation : AllocationLists,
     MaxSupply : {GenesisMaxSupply}]

NoGenesis ==
    [g |-> [StateBranchFactorValid |-> TRUE, CustomAllocation |-> <<>>,
            MaxSupply |-> GenesisMaxSupply],
     loaded |-> FALSE, err |-> "nil", m |-> EmptyLedger]

\* a chain is created from genesis g
GenesisLoad(g) ==
    /\ ~gen.loaded
    /\ gen' = [g |-> g, loaded |-> TRUE, err |-> Load(g, EmptyLedger).err,
               m |-> Load(g, EmptyLedger).m]
    /\ UNCHANGED <<stakingVars, packer, client, chains, registry, faucet>>

(***************************************************************************)
(* Transfer, ExportAsset and ImportAsset on two chains, A and B, that      *)
(* exchange warp messages. Every transaction pays a fee in the native      *)
(* asset of its chain, whether its action succeeds or not.                 *)
(***************************************************************************)
Chains == {"A", "B"}
Destinations == Chains \cup {"C"}

\* the native asset (the reserved empty id), and the id under which a chain
\* holds an asset imported from another chain
NativeAsset == [origin |-> "", id |-> "NAI"]
ImportedAssetID(asset, source) == [origin |-> source, id |-> asset.id]
AssetIDs == {NativeAsset, ImportedAssetID(NativeAsset, "A")}

\* the fee of one transaction
TxFee == 1

NoSwap == [SwapIn |-> 0, AssetOut |-> NativeAsset, SwapOut |-> 0, SwapExpiry |-> 0]

\* the asset record of an asset the chain does not hold
NoWarpAsset == [exists |-> FALSE, supply |-> 0, owner |-> EmptyAddress, warp |-> FALSE]

\* one chain's ledger after its genesis
ChainGenesis(c) ==
    [balance |-> [k \in Addrs \X AssetIDs |->
                    IF k[2] # NativeAsset THEN 0
                    ELSE IF c = "A" THEN (IF k[1] = "a1" THEN 3 ELSE 1)
                    ELSE (IF k[1] = "a1" THEN 1 ELSE 2)],
     asset |-> [a \in AssetIDs |->
                    IF a = NativeAsset
                    THEN [exists |-> TRUE, supply |-> 4, owner |-> EmptyAddress, warp |-> FALSE]
                    ELSE NoWarpAsset],
     loan |-> [k \in AssetIDs \X Destinations |-> 0],
     imported |-> {}]

\* the result of an action on a ledger
Ok(l) == [l |-> l, success |-> TRUE, output |-> "nil"]
Fail(l, output) == [l |-> l, success |-> FALSE, output |-> output]

\* storage.SubBalance / storage.AddBalance on a chain's ledger
LedgerSub(l, addr, asset, amount) ==
    IF l.balance[<<addr, asset>>] < amount
    THEN Fail(l, "OutputInsufficientBalance")
    ELSE Ok([l EXCEPT !.balance[<<addr, asset>>] = @ - amount])
LedgerAdd(l, addr, asset, amount) ==
    IF l.balance[<<addr, asset>>] + amount > MaxUint
    THEN Fail(l, "ErrInvalidBalance")
    ELSE Ok([l EXCEPT !.balance[<<addr, asset>>] = @ + amount])

\* Transfer.Execute: the sender is debited, then the recipient credited
TransferCreditNothing(l, to, asset, value) == Ok(l)
TransferCredit(l, to, asset, value) == LedgerAdd(l, to, asset, value)

TransferExecute(l, actor, t) ==
    IF t.Value = 0 THEN Fail(l, "OutputValueZero")
    ELSE LET d == LedgerSub(l, actor, t.Asset, t.Value)
         IN  IF ~d.success THEN Fail(l, d.output)
             ELSE LET c == TransferCredit(d.l, t.To, t.Asset, t.Value)
                  IN  IF ~c.success THEN Fail(l, c.output) ELSE Ok(c.l)

\* the fee is taken from the actor's native balance before the action runs
ChargeFee(l, actor) == [l EXCEPT !.balance[<<actor, NativeAsset>>] = @ - TxFee]
CanPayFee(l, actor) == l.balance[<<actor, NativeAsset>>] >= TxFee

\* a swap offer is well formed when it is absent or complete
SwapValid(e) ==
    \/ e.SwapIn = 0 /\ e.SwapOut = 0 /\ e.SwapExpiry = 0
    \/ e.SwapIn > 0 /\ e.SwapIn <= e.Value /\ e.SwapOut > 0 /\ e.SwapExpiry > 0

\* the warp message an export sends: Asset is the asset's id on its origin
WarpTransfer(c, e, asset) ==
    [source |-> c, destination |-> e.Destination, To |-> e.To, Asset |-> asset,
     Value |-> e.Value, Return |-> e.Return, Reward |-> e.Reward,
     SwapIn |-> e.SwapIn, AssetOut |-> e.AssetOut, SwapOut |-> e.SwapOut,
     SwapExpiry |-> e.SwapExpiry]

\* ExportAsset of an asset of this chain: the value is lent to the destination
ExportLoanNothing(l, e) == l
ExportLoan(l, e) == [l EXCEPT !.loan[<<e.Asset, e.Destination>>] = @ + e.Value]

ExportExecuteLoan(l, c, actor, e) ==
    IF l.asset[e.Asset].warp THEN Fail(l, "OutputWarpAsset")
    ELSE IF l.loan[<<e.Asset, e.Destination>>] + e.Value > MaxUint
    THEN Fail(l, "ErrInvalidBalance")
    ELSE LET d == LedgerSub(ExportLoan(l, e), actor, e.Asset, e.Value)
         IN  IF ~d.success THEN Fail(l, d.output)
             ELSE [Ok(d.l) EXCEPT !.output = "sent"]

\* ExportAsset with Return: a wrapped asset goes back to its origin chain
ExportBurnKeepEmpty(l, asset, amount) ==
    [l EXCEPT !.asset[asset].supply = @ - amount]
ExportBurn(l, asset, amount) ==
    IF l.asset[asset].supply = amount
    THEN [l EXCEPT !.asset[asset] = NoWarpAsset]
    ELSE [l EXCEPT !.asset[asset].supply = @ - amount]

ExportExecuteReturn(l, c, actor, e) ==
    IF ~l.asset[e.Asset].warp THEN Fail(l, "OutputNotWarpAsset")
    ELSE IF e.Asset.origin # e.Destination THEN Fail(l, "OutputWrongDestination")
    ELSE IF l.asset[e.Asset].supply < e.Value + e.Reward
    THEN Fail(l, "OutputInsufficientBalance")
    ELSE LET d == LedgerSub(ExportBurn(l, e.Asset, e.Value + e.Reward),
                            actor, e.Asset, e.Value + e.Reward)
         IN  IF ~d.success THEN Fail(l, d.output)
             ELSE [Ok(d.l) EXCEPT !.output = "sent"]

ExportExecute(l, c, actor, e) ==
    IF e.Value = 0 THEN Fail(l, "OutputValueZero")
    ELSE IF ~SwapValid(e) THEN Fail(l, "OutputInvalidSwap")
    ELSE IF ~l.asset[e.Asset].exists THEN Fail(l, "OutputAssetMissing")
    ELSE IF e.Return THEN ExportExecuteReturn(l, c, actor, e)
    ELSE ExportExecuteLoan(l, c, actor, e)

\* the asset of a message as the importing chain holds it
MessageAsset(msg) ==
    IF msg.Return THEN msg.Asset ELSE ImportedAssetID(msg.Asset, msg.source)

\* ImportAsset of a non-return message: the wrapped asset is minted
ImportMintToActor(l, msg, actor) ==
    LET a == MessageAsset(msg)
    IN  [l EXCEPT !.asset[a] = [exists |-> TRUE, supply |-> @.supply + msg.Value + msg.Reward,
                                owner |-> actor, warp |-> TRUE]]
ImportMint(l, msg, actor) ==
    LET a == MessageAsset(msg)
    IN  [l EXCEPT !.asset[a] = [exists |-> TRUE, supply |-> @.supply + msg.Value + msg.Reward,
                                owner |-> EmptyAddress, warp |-> TRUE]]

ImportExecuteMint(l, msg, actor) ==
    IF l.asset[MessageAsset(msg)].supply + msg.Value + msg.Reward > MaxUint
    THEN Fail(l, "ErrInvalidBalance")
    ELSE Ok(ImportMint(l, msg, actor))

\* ImportAsset of a return message: the loan to the message's source shrinks
ImportUnloanValueOnly(l, msg) ==
    [l EXCEPT !.loan[<<msg.Asset, msg.source>>] = @ - msg.Value]
ImportUnloan(l, msg) ==
    [l EXCEPT !.loan[<<msg.Asset, msg.source>>] = @ - (msg.Value + msg.Reward)]

ImportExecuteReturn(l, msg) ==
    IF l.loan[<<msg.Asset, msg.source>>] < msg.Value + msg.Reward
    THEN Fail(l, "OutputInsufficientBalance")
    ELSE Ok(ImportUnloan(l, msg))

\* the credits of an import without a fill
ImportCredit(l, msg, actor) ==
    LET a == MessageAsset(msg)
        r == LedgerAdd(l, actor, a, msg.Reward)
    IN  IF ~r.success THEN r ELSE LedgerAdd(r.l, msg.To, a, msg.Value)

\* the credits and the swap of an import with a fill
ImportFillNoPayment(l, msg, actor) ==
    LET a == MessageAsset(msg)
        r == LedgerAdd(l, actor, a, msg.Reward)
        v == IF r.success THEN LedgerAdd(r.l, msg.To, a, msg.Value - msg.SwapIn) ELSE r
    IN  IF v.success THEN LedgerAdd(v.l, actor, a, msg.SwapIn) ELSE v
ImportFill(l, msg, actor) ==
    LET a == MessageAsset(msg)
        r == LedgerAdd(l, actor, a, msg.Reward)
        v == IF r.success THEN LedgerAdd(r.l, msg.To, a, msg.Value - msg.SwapIn) ELSE r
        i == IF v.success THEN LedgerAdd(v.l, actor, a, msg.SwapIn) ELSE v
        o == IF i.success THEN LedgerSub(i.l, actor, msg.AssetOut, msg.SwapOut) ELSE i
    IN  IF o.success THEN LedgerAdd(o.l, msg.To, msg.AssetOut, msg.SwapOut) ELSE o

\* ImportAsset.Execute at time t; id is the message's id, which the host
\* accepts once
ImportExecute(l, actor, id, msg, fill, t) ==
    IF id \in l.imported THEN Fail(l, "ErrDuplicateWarpMessage")
    ELSE IF fill /\ msg.SwapIn = 0 THEN Fail(l, "OutputInvalidSwap")
    ELSE IF fill /\ msg.SwapExpiry < t THEN Fail(l, "OutputSwapExpired")
    ELSE IF ~fill /\ msg.SwapIn > 0 /\ msg.SwapExpiry >= t THEN Fail(l, "OutputMustFill")
    ELSE LET m == IF msg.Return THEN ImportExecuteReturn(l, msg)
                  ELSE ImportExecuteMint(l, msg, actor)
             b == IF ~m.success THEN m
                  ELSE IF fill THEN ImportFill(m.l, msg, actor)
                  ELSE ImportCredit(m.l, msg, actor)
         IN  IF ~b.success THEN Fail(l, b.output)
             ELSE Ok([b.l EXCEPT !.imported = @ \cup {id}])

\* the most warp messages the chains exchange
MaxMsgs == 2

NoAction == [op |-> "none"]

\* the totals a chain has exported without Return and imported with Return,
\* for every asset and chain, kept beside the ledgers
NoTotals == [k \in AssetIDs \X Destinations |-> 0]

\* the ledgers and the record of one transaction of `actor` on chain c; the
\* record of a rejected transaction keeps the part of the input named in reject
Settle(c, actor, op, input, reject, r, msgs, exported, returned) ==
    chains' = [chains EXCEPT
        !.ledger[c] = r.l,
        !.msgs = msgs,
        !.exported[c] = exported,
        !.returned[c] = returned,
        !.last = [op |-> op, chain |-> c, actor |-> actor,
                  input |-> IF r.success THEN input ELSE reject,
                  success |-> r.success, output |-> r.output]]

Transfer(c, actor, to, asset, value) ==
    LET t == [To |-> to, Asset |-> asset, Value |-> value]
    IN  /\ CanPayFee(chains.ledger[c], actor)
        /\ Settle(c, actor, "transfer", t, [Asset |-> asset],
                  TransferExecute(ChargeFee(chains.ledger[c], actor), actor, t),
                  chains.msgs, chains.exported[c], chains.returned[c])
        /\ UNCHANGED <<stakingVars, packer, client, gen, registry, faucet>>

ExportAsset(c, actor, e) ==
    LET r == ExportExecute(ChargeFee(chains.ledger[c], actor), c, actor, e)
        asset == IF e.Return THEN [e.Asset EXCEPT !.origin = ""] ELSE e.Asset
    IN  /\ CanPayFee(chains.ledger[c], actor)
        /\ Len(chains.msgs) < MaxMsgs
        /\ Settle(c, actor, "export", e,
                  [Asset |-> e.Asset, Return |-> e.Return, Destination |-> e.Destination], r,
                  IF r.success THEN Append(chains.msgs, WarpTransfer(c, e, asset))
                  ELSE chains.msgs,
                  IF r.success /\ ~e.Return
                  THEN [chains.exported[c] EXCEPT ![<<e.Asset, e.Destination>>] = @ + e.Value]
                  ELSE chains.exported[c],
                  chains.returned[c])
        /\ UNCHANGED <<stakingVars, packer, client, gen, registry, faucet>>

ImportAsset(c, actor, id, fill, t) ==
    LET msg == chains.msgs[id]
        r == ImportExecute(ChargeFee(chains.ledger[c], actor), actor, id, msg, fill, t)
    IN  /\ id \in DOMAIN chains.msgs
        /\ msg.destination = c
        /\ CanPayFee(chains.ledger[c], actor)
        /\ Settle(c, actor, "import", [id |-> id, Fill |-> fill, t |-> t],
                  [id |-> id, Fill |-> fill, t |-> t], r, chains.msgs,
                  chains.exported[c],
                  IF r.success /\ msg.Return
                  THEN [chains.returned[c] EXCEPT
                            ![<<msg.Asset, msg.source>>] = @ + msg.Value + msg.Reward]
                  ELSE chains.returned[c])
        /\ UNCHANGED <<stakingVars, packer, client, gen, registry, faucet>>

\* the inputs of the asset transactions
TransferValues == {0, 1, 2}
ExportValues == {1, 2}
SwapOffers == {NoSwap, [SwapIn |-> 1, AssetOut |-> NativeAsset, SwapOut |-> 1, SwapExpiry |-> 2]}
Exports ==
    {[To |-> to, Asset |-> a, Value |-> v, Return |-> ret, Reward |-> rw,
      Destination |-> d, SwapIn |-> s.SwapIn, AssetOut |-> s.AssetOut,
      SwapOut |-> s.SwapOut, SwapExpiry |-> s.SwapExpiry] :
        to \in Addrs, a \in AssetIDs, v \in ExportValues, ret \in BOOLEAN,
        rw \in {0, 1}, d \in Destinations, s \in SwapOffers}
ImportTimes == {1, 3}

(***************************************************************************)
(* The registry: init() registers the action and auth types of the chain   *)
(* in two type parsers and panics if a registration fails; the transaction *)
(* decoder looks the type id of an action up.                              *)
(***************************************************************************)
\* the largest type id looked up
MaxTypeID == 13

\* the action types init registers, in its order, and the auth types
ActionTypes ==
    <<"Transfer", "CreateAsset", "MintAsset", "BurnAsset", "ImportAsset", "ExportAsset",
      "RegisterValidatorStake", "ClaimValidatorStakeRewards", "WithdrawValidatorStake",
      "DelegateUserStake", "ClaimDelegationStakeRewards", "UndelegateUserStake">>
AuthTypes == <<"ED25519", "SECP256R1", "BLS">>

ActionNames == {ActionTypes[i] : i \in DOMAIN ActionTypes}
AuthNames == {AuthTypes[i] : i \in DOMAIN AuthTypes}
IndexOf(seq, name) == CHOOSE i \in DOMAIN seq : seq[i] = name

\* the type ids of the consts package: every type has its own, in the order
\* of the registrations; UnstakeValidator has one as well
TypeIDs ==
    [n \in ActionNames \cup AuthNames \cup {"UnstakeValidator"} |->
        IF n \in ActionNames THEN IndexOf(ActionTypes, n) - 1
        ELSE IF n \in AuthNames THEN IndexOf(AuthTypes, n) - 1
        ELSE Len(ActionTypes)]

\* consts packages in which one action type was given the id of another
TypeIDTables ==
    {TypeIDs} \cup
    {[TypeIDs EXCEPT ![n] = TypeIDs[m]] : n \in ActionNames, m \in ActionNames}

\* codec.NewTypeParser and TypeParser.Register
\* a parser is the set of its decoders, at most one for an id
NewTypeParser == {}
Registered(parser, id) == \E d \in parser : d.id = id
DecoderOf(parser, id) == CHOOSE d \in parser : d.id = id

RegisterOverwriting(parser, id, f, y) ==
    [parser |-> {d \in parser : d.id # id} \cup {[id |-> id, f |-> f, y |-> y]},
     err |-> "nil"]
Register(parser, id, f, y) ==
    IF Registered(parser, id) THEN [parser |-> parser, err |-> "ErrDuplicateItem"]
    ELSE [parser |-> parser \cup {[id |-> id, f |-> f, y |-> y]}, err |-> "nil"]

\* wrappers.Errs.Add keeps the first error
ErrsAdd(errs, err) == IF errs = "nil" THEN err ELSE errs

\* the warp flag init gives an action type
WarpRequiredNever(name) == FALSE
WarpRequired(name) == name = "ImportAsset"

\* the registrations of init, one after the other
RECURSIVE RegisterActions(_, _, _)
RegisterActions(ids, i, r) ==
    IF i > Len(ActionTypes) THEN r
    ELSE LET n == ActionTypes[i]
             x == Register(r.actions, ids[n], n, WarpRequired(n))
         IN  RegisterActions(ids, i + 1,
                 [r EXCEPT !.actions = x.parser, !.errs = ErrsAdd(@, x.err)])

RECURSIVE RegisterAuths(_, _, _)
RegisterAuths(ids, i, r) ==
    IF i > Len(AuthTypes) THEN r
    ELSE LET n == AuthTypes[i]
             x == Register(r.auths, ids[n], n, FALSE)
         IN  RegisterAuths(ids, i + 1,
                 [r EXCEPT !.auths = x.parser, !.errs = ErrsAdd(@, x.err)])

\* init: both registries are filled, then a recorded error is a panic
RegistryInit(ids) ==
    LET r == RegisterAuths(ids, 1,
                RegisterActions(ids, 1,
                    [actions |-> NewTypeParser, auths |-> NewTypeParser, errs |-> "nil"]))
    IN  [pc |-> IF r.errs # "nil" THEN "panicked" ELSE "ready", ids |-> ids,
         actions |-> r.actions, auths |-> r.auths, errs |-> r.errs,
         lookup |-> [done |-> FALSE]]

\* TypeParser.LookupIndex, and the decoder's error for an unknown action type
LookupIndex(parser, id) ==
    IF Registered(parser, id)
    THEN [done |-> TRUE, id |-> id, f |-> DecoderOf(parser, id).f,
          y |-> DecoderOf(parser, id).y, ok |-> TRUE, err |-> "nil"]
    ELSE [done |-> TRUE, id |-> id, f |-> "", y |-> FALSE, ok |-> FALSE,
          err |-> "ErrInvalidObject"]

NoRegistry ==
    [pc |-> "start", ids |-> TypeIDs, actions |-> NewTypeParser, auths |-> NewTypeParser,
     errs |-> "nil", lookup |-> [done |-> FALSE]]

\* the program starts: the package is initialized
StartRegistry(ids) ==
    /\ registry.pc = "start"
    /\ registry' = RegistryInit(ids)
    /\ UNCHANGED <<stakingVars, packer, client, gen, chains, faucet>>

\* a transaction with the action type id is decoded
DecodeAction(id) ==
    /\ registry.pc = "ready"
    /\ registry' = [registry EXCEPT !.lookup = LookupIndex(registry.actions, id)]
    /\ UNCHANGED <<stakingVars, packer, client, gen, chains, faucet>>

(***************************************************************************)
(* The faucet: Manager.SolveChallenge pays a caller who solved the current *)
(* challenge; the timer's updateDifficulty rotates the salt. Both run      *)
(* under the manager's lock, a step at a time.                             *)
(***************************************************************************)
\* the most salts the manager draws
MaxSalt == 2

\* the most timers the manager makes, and the most Run loops started
MaxTimers == 3
MaxRuns == 3

\* config.StartDifficulty, config.SolutionsPerSalt and
\* config.TargetDurationPerSalt (in seconds)
StartDifficulty == 1
SolutionsPerSalt == 2
TargetDurationPerSalt == 2

\* the values of a uint16, the type of the difficulty
Uint16 == 65536

DefaultConfig ==
    [StartDifficulty |-> StartDifficulty, SolutionsPerSalt |-> SolutionsPerSalt,
     TargetDurationPerSalt |-> TargetDurationPerSalt]

\* a faucet that starts at the hardest difficulty, rolls on every solution and
\* has a target duration of an odd number of seconds
SteepConfig ==
    [StartDifficulty |-> Uint16 - 1, SolutionsPerSalt |-> 1,
     TargetDurationPerSalt |-> TargetDurationPerSalt + 1]

Callers == {"c1", "c2"}
Salts == 0..MaxSalt

\* a solution is a nonce found for a salt with some amount of work;
\* challenge.Verify accepts it for that salt up to that difficulty
Solutions == [salt : Salts, work : {1, 2}]
Verify(salt, solution, difficulty) ==
    solution.salt = salt /\ solution.work >= difficulty

\* utils.ToID: the hash of the solution
ToID(solution) == <<"id", solution.salt, solution.work>>

NoCall == [pc |-> "idle", salt |-> 0, solution |-> [salt |-> 0, work |-> 1], err |-> "none"]

\* timer.NewTimer: not armed, not stopped, no Dispatch loop
NewTimer ==
    [armed |-> FALSE, remaining |-> 0, finished |-> FALSE, dispatchers |-> 0]

\* Timer.SetTimeoutIn and Timer.Cancel on the manager's timer id
SetTimeoutIn(m, id) ==
    [m EXCEPT !.timers[id].armed = TRUE,
              !.timers[id].remaining = m.config.TargetDurationPerSalt]
TimerCancel(m, id) == [m EXCEPT !.timers[id].armed = FALSE]

\* a Run loop: where it is, its context, whether RestartRun started it under
\* m.wg, and the timer it set
NoRun == [pc |-> "none", ctx |-> 0, tracked |-> FALSE, timer |-> 0]

\* the last operation that changed the challenge, the time since lastRotation
\* it saw and the difficulty it found; fired changes at every call of
\* updateDifficulty
NoOp == [op |-> "New", waited |-> 0, difficulty |-> 0, fired |-> FALSE]
Seen(m, op) ==
    [op |-> op, waited |-> m.elapsed, difficulty |-> m.difficulty,
     fired |-> IF op = "updateDifficulty" THEN ~m.last.fired ELSE m.last.fired]

\* the manager New returns: elapsed is the time since lastRotation, t the
\* timer in m.t, cancel the context m.cancelFunc cancels (New's own at first),
\* sent the transactions submitted
NewManager(config) ==
    [l |-> "free", salt |-> 0, difficulty |-> config.StartDifficulty, solutions |-> {},
     calls |-> [c \in Callers |-> NoCall], sent |-> {}, resent |-> FALSE,
     config |-> config, elapsed |-> 0,
     t |-> 1, timers |-> [i \in 1..MaxTimers |-> NewTimer],
     runs |-> [r \in 1..MaxRuns |-> NoRun],
     cancel |-> 0, ctxs |-> 0, cancelled |-> {}, wg |-> 0, restart |-> "none",
     last |-> NoOp]

\* m.l.Lock() returns when nobody holds the lock
LockFreeAlways(m) == TRUE
LockFree(m) == m.l = "free"

\* the checks of SolveChallenge, in its order
SolveRejection(m, salt, solution) ==
    IF m.salt # salt THEN "salt expired"
    ELSE IF ~Verify(salt, solution, m.difficulty) THEN "invalid solution"
    ELSE IF ToID(solution) \in m.solutions THEN "duplicate solution"
    ELSE "nil"

\* a call of c enters SolveChallenge and takes the lock
SolveLock(c, salt, solution) ==
    /\ faucet.calls[c].pc = "idle"
    /\ faucet.salt < MaxSalt
    /\ LockFree(faucet)
    /\ faucet' = [faucet EXCEPT
            !.l = c,
            !.calls[c] = [pc |-> "locked", salt |-> salt, solution |-> solution,
                          err |-> "none"]]
    /\ UNCHANGED <<stakingVars, packer, client, gen, chains, registry>>

\* the call is checked: a rejection returns, which releases the lock
SolveCheck(c) ==
    LET call == faucet.calls[c]
        err == SolveRejection(faucet, call.salt, call.solution)
    IN  /\ call.pc = "locked"
        /\ faucet' = IF err # "nil"
                      THEN [faucet EXCEPT !.l = "free",
                                          !.calls[c] = [NoCall EXCEPT !.err = err]]
                      ELSE [faucet EXCEPT !.calls[c].pc = "sending"]
        /\ UNCHANGED <<stakingVars, packer, client, gen, chains, registry>>

\* config.Amount, the funds sent for a solution
Amount == 2

\* what the node answers to sendFunds: whether the parser and the transaction
\* are made, the fee, the faucet's balance, whether submit succeeds
SendReplies ==
    [parser : BOOLEAN, generate : BOOLEAN, maxFee : {1, 3}, bal : {2, 4},
     submit : BOOLEAN]

\* the error sendFunds returns
SendFunds(amount, reply) ==
    IF ~reply.parser THEN "parser error"
    ELSE IF ~reply.generate THEN "generate error"
    ELSE IF amount < reply.maxFee THEN "network fee too high"
    ELSE IF reply.bal < reply.maxFee + amount THEN "insufficient balance"
    ELSE IF ~reply.submit THEN "submit error"
    ELSE "nil"

SendErrors == {"parser error", "generate error", "network fee too high",
               "insufficient balance", "submit error"}

\* sendFunds returned an error: SolveChallenge returns it, which releases the
\* lock
SendFailedRecorded(m, c, err) ==
    [m EXCEPT !.l = "free", !.calls[c] = [NoCall EXCEPT !.err = err],
              !.solutions = @ \cup {ToID(m.calls[c].solution)}]
SendFailed(m, c, err) ==
    [m EXCEPT !.l = "free", !.calls[c] = [NoCall EXCEPT !.err = err]]

\* sendFunds: the transfer is submitted, or an error is returned before that
SolveSend(c, reply) ==
    LET call == faucet.calls[c]
        tx == <<call.salt, ToID(call.solution)>>
        err == SendFunds(Amount, reply)
    IN  /\ call.pc = "sending"
        /\ faucet' = IF err # "nil"
                      THEN SendFailed(faucet, c, err)
                      ELSE [faucet EXCEPT !.calls[c].pc = "sent",
                                          !.sent = @ \cup {tx},
                                          !.resent = @ \/ tx \in faucet.sent]
        /\ UNCHANGED <<stakingVars, packer, client, gen, chains, registry>>

\* m.difficulty++ on a uint16
IncrementSaturating(difficulty) ==
    IF difficulty = Uint16 - 1 THEN difficulty ELSE difficulty + 1
Increment(difficulty) == (difficulty + 1) % Uint16

\* the roll at the end of SolveChallenge: a harder challenge, a new salt, no
\* solutions, lastRotation now and the timer set again
SolveRollKeepSolutions(m) ==
    SetTimeoutIn(TimerCancel(
        [m EXCEPT !.difficulty = Increment(@), !.salt = @ + 1, !.elapsed = 0], m.t), m.t)
SolveRoll(m) ==
    SetTimeoutIn(TimerCancel(
        [m EXCEPT !.difficulty = Increment(@), !.salt = @ + 1, !.solutions = {},
                  !.elapsed = 0], m.t), m.t)

\* the solution is recorded; with enough solutions the salt is rolled
SolveFinish(c) ==
    LET call == faucet.calls[c]
        m == [faucet EXCEPT
                !.l = "free",
                !.calls[c] = [NoCall EXCEPT !.err = "nil"],
                !.solutions = @ \cup {ToID(call.solution)}]
    IN  /\ call.pc = "sent"
        /\ faucet' = IF Cardinality(m.solutions) >= m.config.SolutionsPerSalt
                      THEN SolveRoll([m EXCEPT !.last = Seen(faucet, "roll")])
                      ELSE [m EXCEPT !.last = Seen(faucet, "solve")]
        /\ UNCHANGED <<stakingVars, packer, client, gen, chains, registry>>

\* updateDifficulty under the lock: nothing within half the target duration
\* of lastRotation; else an easier challenge if nobody solved this one, a new
\* salt, no solutions, lastRotation now and the timer set again
UpdateDifficultyExecute(m) ==
    IF m.elapsed < m.config.TargetDurationPerSalt \div 2 THEN m
    ELSE SetTimeoutIn(
            [m EXCEPT !.difficulty = IF @ > m.config.StartDifficulty /\ m.solutions = {}
                                     THEN @ - 1 ELSE @,
                      !.salt = @ + 1, !.solutions = {}, !.elapsed = 0], m.t)

\* a second passes: lastRotation is older, armed timers are nearer
Tick ==
    /\ \A id \in 1..MaxTimers :
          ~(faucet.timers[id].armed /\ faucet.timers[id].remaining = 0
            /\ faucet.timers[id].dispatchers > 0 /\ ~faucet.timers[id].finished)
    /\ \/ faucet.elapsed < faucet.config.TargetDurationPerSalt
       \/ \E id \in 1..MaxTimers : faucet.timers[id].armed /\ faucet.timers[id].remaining > 0
    /\ faucet' = [faucet EXCEPT
            !.elapsed = IF @ < faucet.config.TargetDurationPerSalt THEN @ + 1 ELSE @,
            !.timers = [id \in 1..MaxTimers |->
                          IF @[id].armed /\ @[id].remaining > 0
                          THEN [@[id] EXCEPT !.remaining = @ - 1] ELSE @[id]]]
    /\ UNCHANGED <<stakingVars, packer, client, gen, chains, registry>>

\* the Dispatch loop of timer id runs its handler, m.updateDifficulty, which
\* takes the lock
TimerFire(id) ==
    LET timer == faucet.timers[id]
        m == [faucet EXCEPT !.timers[id].armed = FALSE,
                            !.last = Seen(faucet, "updateDifficulty")]
    IN  /\ timer.dispatchers > 0 /\ ~timer.finished
        /\ timer.armed /\ timer.remaining = 0
        /\ LockFree(faucet)
        /\ faucet.salt < MaxSalt
        /\ faucet' = UpdateDifficultyExecute(m)
        /\ UNCHANGED <<stakingVars, packer, client, gen, chains, registry>>

\* the context of a Run called from outside the manager
ExternalCtx == MaxRuns + 1

\* go m.t.Dispatch(): nothing on a stopped timer
Dispatch(m, id) ==
    IF m.timers[id].finished THEN m ELSE [m EXCEPT !.timers[id].dispatchers = @ + 1]

\* Run up to its wait for ctx.Done(): the timer in m.t is set and dispatched
RunStart(m, r, ctx, tracked) ==
    [Dispatch(SetTimeoutIn(m, m.t), m.t) EXCEPT
        !.runs[r] = [pc |-> "waiting", ctx |-> ctx, tracked |-> tracked, timer |-> m.t]]

\* the program calls Run once, with a context of its own
Run ==
    /\ \A r \in 1..MaxRuns : faucet.runs[r].pc = "none"
    /\ faucet' = RunStart(faucet, 1, ExternalCtx, FALSE)
    /\ UNCHANGED <<stakingVars, packer, client, gen, chains, registry>>

\* Timer.Stop on the timer now in m.t, by a Run whose context is cancelled:
\* a stopped timer returns at once, a dispatched one ends its Dispatch loop,
\* and one that was never dispatched is waited for without end
RunStop(r) ==
    LET run == faucet.runs[r]
        id == faucet.t
        timer == faucet.timers[id]
        returns == timer.finished \/ timer.dispatchers > 0
    IN  /\ run.pc = "waiting"
        /\ run.ctx \in faucet.cancelled
        /\ faucet' = [faucet EXCEPT
                !.timers[id] = [@ EXCEPT !.finished = TRUE, !.dispatchers = 0],
                !.runs[r].pc = IF returns THEN "done" ELSE "stopping",
                !.wg = IF returns /\ run.tracked THEN @ - 1 ELSE @]
        /\ UNCHANGED <<stakingVars, packer, client, gen, chains, registry>>

\* RestartRun up to m.wg.Wait(): the context of m.cancelFunc is cancelled
RestartCancel(m, caller) ==
    [m EXCEPT !.cancelled = @ \cup {m.cancel}, !.restart = caller]

\* RestartRun called by the program
RestartRun ==
    /\ faucet.restart = "none"
    /\ faucet.ctxs < MaxRuns - 1
    /\ faucet' = RestartCancel(faucet, "program")
    /\ UNCHANGED <<stakingVars, packer, client, gen, chains, registry>>

\* RestartRun after m.wg.Wait(): a new context, whose cancel becomes
\* m.cancelFunc, and a new Run under m.wg; UpdateNuklaiRPC then returns
RestartStart ==
    LET ctx == faucet.ctxs + 1
        m == [faucet EXCEPT !.ctxs = ctx, !.cancel = ctx, !.wg = @ + 1,
                            !.restart = "none",
                            !.l = IF faucet.restart = "UpdateNuklaiRPC" THEN "free" ELSE @]
    IN  /\ faucet.restart # "none"
        /\ faucet.wg = 0
        /\ faucet' = RunStart(m, ctx + 1, ctx, TRUE)
        /\ UNCHANGED <<stakingVars, packer, client, gen, chains, registry>>

UpdateOutcomes == {"network error", "balance error", "nil"}

\* UpdateNuklaiRPC under the lock: an error of the new endpoint's Network
\* call returns before the challenge is touched; then a new salt, no
\* solutions, the start difficulty and lastRotation now; an error of Balance
\* returns here; else a new timer is put in m.t and RestartRun is called
UpdateNuklaiRPC(outcome) ==
    LET m == [faucet EXCEPT !.salt = @ + 1, !.solutions = {},
                            !.difficulty = faucet.config.StartDifficulty,
                            !.elapsed = 0, !.last = Seen(faucet, "UpdateNuklaiRPC")]
    IN  /\ LockFree(faucet)
        /\ faucet.restart = "none"
        /\ faucet.salt < MaxSalt
        /\ faucet.t < MaxTimers
        /\ faucet.ctxs < MaxRuns - 1
        /\ faucet' = CASE outcome = "network error" ->
                            [faucet EXCEPT !.last = Seen(faucet, "network error")]
                        [] outcome = "balance error" -> m
                        [] OTHER ->
                            RestartCancel([m EXCEPT !.t = @ + 1, !.l = "rpc"],
                                          "UpdateNuklaiRPC")
        /\ UNCHANGED <<stakingVars, packer, client, gen, chains, registry>>

\* updateDifficulty called at any time: justRolled tells whether lastRotation
\* is recent
UpdateDifficulty(justRolled) ==
    /\ faucet.salt < MaxSalt
    /\ LockFree(faucet)
    /\ ~justRolled
    /\ LET m == [faucet EXCEPT !.elapsed = faucet.config.TargetDurationPerSalt]
       IN  faucet' = UpdateDifficultyExecute([m EXCEPT !.last = Seen(m, "updateDifficulty")])
    /\ UNCHANGED <<stakingVars, packer, client, gen, chains, registry>>

(***************************************************************************)
(* The JSON-RPC client: Asset with its cache, Tx and WaitForTransaction.    *)
(***************************************************************************)

\* the assets the client asks about, their supplies, and transaction fees
ClientAssets == {"NAI", "w"}
Supplies == {1, 2}
Fees == {1, 2}
TxIDs == {"t1", "t2"}

\* error messages, as the words of err.Error(); no error is the empty message
Nil == <<>>
ErrAssetNotFound == <<"asset", "not", "found">>
ErrTxNotFound == <<"tx", "not", "found">>
ErrConnection == <<"connection", "refused">>
ErrCanceled == <<"context", "canceled">>

\* the message the requester returns when the node answers with err
Reply(err) == IF err = Nil THEN Nil ELSE <<"rpc", "error">> \o err

\* strings.Contains
Contains(s, substr) ==
    \E i \in 0..(Len(s) - Len(substr)) : SubSeq(s, i + 1, i + Len(substr)) = substr

NoAssetReply == [exists |-> FALSE, supply |-> 0]
NoTx == [found |-> FALSE, success |-> FALSE, fee |-> 0]
NoReply == [op |-> "none", asset |-> "", useCache |-> FALSE, queried |-> FALSE,
            exists |-> FALSE, supply |-> 0, err |-> Nil]
NoWait == [pc |-> "idle", txID |-> "", ctx |-> "live", raw |-> Nil, reply |-> NoTx,
           success |-> FALSE, fee |-> 0, err |-> Nil]

\* a new client and its node: the cache is empty, the node has the native
\* asset and has not seen the transactions; notFound holds the assets whose
\* last answer from the node was asset-not-found
NewJSONRPCClient ==
    [assets |-> [a \in ClientAssets |-> NoAssetReply],
     node |-> [assets |-> [a \in ClientAssets |->
                              IF a = "NAI" THEN [exists |-> TRUE, supply |-> 1] ELSE NoAssetReply],
               txs |-> [id \in TxIDs |-> NoTx]],
     notFound |-> {}, last |-> NoReply, wait |-> NoWait]

\* the node mints, imports or burns: the asset exists with a new supply
NodeSetAsset(asset, supply) ==
    /\ client.node.assets[asset] # [exists |-> TRUE, supply |-> supply]
    /\ client' = [client EXCEPT !.node.assets[asset] = [exists |-> TRUE, supply |-> supply]]
    /\ UNCHANGED <<stakingVars, packer, gen, chains, registry, faucet>>

\* the node deletes the asset (the last of a wrapped asset was returned)
NodeDeleteAsset(asset) ==
    /\ client.node.assets[asset].exists
    /\ client' = [client EXCEPT !.node.assets[asset] = NoAssetReply]
    /\ UNCHANGED <<stakingVars, packer, gen, chains, registry, faucet>>

\* what the Asset request gets from the node
AssetRequest(node, asset, fail) ==
    IF fail THEN [err |-> ErrConnection, resp |-> NoAssetReply]
    ELSE IF ~node.assets[asset].exists
         THEN [err |-> Reply(ErrAssetNotFound), resp |-> NoAssetReply]
         ELSE [err |-> Nil, resp |-> node.assets[asset]]

\* JSONRPCClient.Asset
Asset(asset, useCache, fail) ==
    LET r == client.assets[asset]
        q == AssetRequest(client.node, asset, fail)
        call == [NoReply EXCEPT !.op = "Asset", !.asset = asset, !.useCache = useCache]
    IN  /\ client' =
              IF r.exists /\ useCache
              THEN [client EXCEPT !.last = [call EXCEPT !.exists = TRUE, !.supply = r.supply]]
              ELSE IF q.err # Nil /\ Contains(q.err, ErrAssetNotFound)
              THEN [client EXCEPT !.notFound = @ \cup {asset},
                                  !.last = [call EXCEPT !.queried = TRUE]]
              ELSE IF q.err # Nil
              THEN [client EXCEPT !.last = [call EXCEPT !.queried = TRUE, !.err = q.err]]
              ELSE [client EXCEPT !.assets[asset] = q.resp,
                                  !.notFound = @ \ {asset},
                                  !.last = [call EXCEPT !.queried = TRUE, !.exists = TRUE,
                                                        !.supply = q.resp.supply]]
        /\ UNCHANGED <<stakingVars, packer, gen, chains, registry, faucet>>

\* the node accepts a transaction
NodeAcceptTx(id, success, fee) ==
    /\ ~client.node.txs[id].found
    /\ client' = [client EXCEPT
            !.node.txs[id] = [found |-> TRUE, success |-> success, fee |-> fee]]
    /\ UNCHANGED <<stakingVars, packer, gen, chains, registry, faucet>>

\* whether Tx takes the requester's error for tx-not-found
IsTxNotFoundNever(err) == FALSE
IsTxNotFound(err) == Contains(err, ErrTxNotFound)

\* JSONRPCClient.Tx on the requester's error and response
Tx(err, resp) ==
    IF err # Nil /\ IsTxNotFound(err) THEN [reply |-> NoTx, err |-> Nil]
    ELSE IF err # Nil THEN [reply |-> NoTx, err |-> err]
    ELSE [reply |-> [found |-> TRUE, success |-> resp.success, fee |-> resp.fee],
          err |-> Nil]

\* WaitForTransaction is called
WaitForTransaction(txID) ==
    /\ client.wait.pc = "idle"
    /\ client' = [client EXCEPT !.wait.pc = "polling", !.wait.txID = txID]
    /\ UNCHANGED <<stakingVars, packer, gen, chains, registry, faucet>>

\* one round of rpc.Wait: Tx is queried; its error ends the wait, a found
\* transaction ends it with that reply's success and fee, else it goes on
Poll(fail) ==
    LET resp == client.node.txs[client.wait.txID]
        raw == IF fail THEN ErrConnection
               ELSE IF ~resp.found THEN Reply(ErrTxNotFound) ELSE Nil
        tx == Tx(raw, resp)
        w == [client.wait EXCEPT !.raw = raw, !.reply = tx.reply]
    IN  /\ client.wait.pc = "polling"
        /\ client.wait.ctx = "live"
        /\ client' = [client EXCEPT !.wait =
              IF tx.err # Nil
              THEN [w EXCEPT !.pc = "returned", !.success = FALSE, !.fee = 0, !.err = tx.err]
              ELSE [w EXCEPT !.pc = IF tx.reply.found THEN "returned" ELSE "polling",
                             !.success = tx.reply.success, !.fee = tx.reply.fee]]
        /\ UNCHANGED <<stakingVars, packer, gen, chains, registry, faucet>>

\* the caller cancels the context of the wait
CancelWait ==
    /\ client.wait.pc = "polling"
    /\ client.wait.ctx = "live"
    /\ client' = [client EXCEPT !.wait.ctx = "cancelled"]
    /\ UNCHANGED <<stakingVars, packer, gen, chains, registry, faucet>>

\* rpc.Wait finds the context cancelled and returns its error
WaitCancelled ==
    /\ client.wait.pc = "polling"
    /\ client.wait.ctx = "cancelled"
    /\ client' = [client EXCEPT !.wait = [@ EXCEPT !.pc = "returned", !.success = FALSE,
                                                   !.fee = 0, !.err = ErrCanceled]]
    /\ UNCHANGED <<stakingVars, packer, gen, chains, registry, faucet>>

\* balances allocated at genesis
GenesisBalance == [a \in Addrs |-> IF a = "a1" THEN 3 ELSE 2]

InitWith(manager) ==
    /\ mu \in [balance : {GenesisBalance},
               validator : {[n \in Nodes |-> NoValidatorStake]},
               delegate : {[p \in Addrs \X Nodes |-> NoDelegateStake]},
               stake : {[s \in StakeIDs |->
                            IF s = "s1"
                            THEN [exists |-> TRUE, nodeID |-> NodeBytes(1), owner |-> "a1"]
                            ELSE NoStake]}]
    /\ emission = [validators |-> [n \in Nodes |-> NoValidator],
                   delegators |-> {},
                   lastAcceptedBlockHeight |-> 0,
                   lastAcceptedBlockTimestamp |-> GenesisTime]
    /\ hostScope \in BOOLEAN
    /\ chains = [ledger |-> [c \in Chains |-> ChainGenesis(c)], msgs |-> <<>>,
                 exported |-> [c \in Chains |-> NoTotals],
                 returned |-> [c \in Chains |-> NoTotals],
                 last |-> NoAction]
    /\ registry = NoRegistry
    /\ client = NewJSONRPCClient
    /\ faucet = manager
    /\ packer = NoPacker
    /\ gen = NoGenesis
    /\ conc = [phase |-> "idle",
               st0 |-> [mu |-> mu, emission |-> emission],
               tx |-> <<IdleContext, IdleContext>>,
               x |-> <<IdleContext, IdleContext>>]
    /\ out = [op |-> "init", success |-> TRUE, units |-> "",
              output |-> "", value |-> 0, err |-> "nil",
                   rewardAmount |-> 0, undeclared |-> {}, storageErr |-> {},
                   nodeID |-> EmptyNodeID]

\* the state after construction, with the faucet of the default configuration
Init == InitWith(NewManager(DefaultConfig))

\* the same with a faucet of either configuration
InitManager == \E config \in {DefaultConfig, SteepConfig} : InitWith(NewManager(config))

Next ==
    \/ \E actor \in Addrs, nodeID \in RegisterNodes, stakeEndBlock \in StakeEnds,
          stakedAmount \in RegisterAmounts, rewardAddress \in RewardAddrs :
            RegisterValidatorStake(actor, nodeID, stakeEndBlock, stakedAmount, rewardAddress)
    \/ \E accrued \in [Nodes -> 0..1] : AcceptBlock(accrued)
    \/ \E actor \in Addrs, nodeBytes \in NodeIDInputs, clock \in Clocks(emission) :
            WithdrawValidatorStake(actor, nodeBytes, clock)
    \/ \E actor \in Addrs, nodeBytes \in DelegateNodeIDs, stakeStartBlock \in DelegateStarts(emission) :
       \E stakeEndBlock \in {stakeStartBlock, stakeStartBlock + 1},
          stakedAmount \in DelegateAmounts, rewardAddress \in RewardAddrs :
            DelegateUserStake(actor, nodeBytes, stakeStartBlock, stakeEndBlock,
                              stakedAmount, rewardAddress)
    \/ \E actor \in Addrs, stake \in StakeIDs, nodeBytes \in NodeIDInputs :
            UnstakeValidator(actor, stake, nodeBytes)

Spec == Init /\ [][Next]_vars

\* registrations and blocks, then one concurrent pair
NextConc ==
    \/ /\ conc.phase = "idle"
       /\ \E actor \in Addrs, nodeID \in Nodes, stakeEndBlock \in StakeEnds,
             stakedAmount \in RegisterAmounts, rewardAddress \in RewardAddrs :
               RegisterValidatorStake(actor, nodeID, stakeEndBlock, stakedAmount, rewardAddress)
    \/ /\ conc.phase = "idle"
       /\ \E accrued \in [Nodes -> 0..1] : AcceptBlock(accrued)
    \/ \E x1 \in ConcTxs, x2 \in ConcTxs : Begin(x1, x2)
    \/ \E i \in 1..2 : ConcStep(i)

SpecConc == Init /\ [][NextConc]_vars

\* actions put on the wire and read back
NextCodec ==
    \/ \E u \in WithdrawValues : WithdrawCodec(u)
    \/ \E s \in DelegateValues : DelegateCodec(s)
    \/ \E u \in UnstakeValues : UnstakeCodec(u)

SpecCodec == Init /\ [][NextCodec]_vars

\* chains created from every genesis file
NextGenesis == \E g \in Geneses : GenesisLoad(g)

SpecGenesis == Init /\ [][NextGenesis]_vars

\* the one loan that brings the wrapped asset to chain B
FirstExport ==
    [To |-> "a1", Asset |-> NativeAsset, Value |-> 2, Return |-> FALSE, Reward |-> 0,
     Destination |-> "B", SwapIn |-> 0, AssetOut |-> NativeAsset, SwapOut |-> 0,
     SwapExpiry |-> 0]

\* transfers of the native asset, and of the wrapped asset once it is imported
NextTransfer ==
    \/ \E c \in Chains, actor \in Addrs, to \in Addrs, asset \in AssetIDs,
          value \in TransferValues : Transfer(c, actor, to, asset, value)
    \/ ExportAsset("A", "a1", FirstExport)
    \/ \E actor \in Addrs : ImportAsset("B", actor, 1, FALSE, 1)

SpecTransfer == Init /\ [][NextTransfer]_vars

\* the exports the users of chain c submit: chain A lends its native asset to
\* chain B, chain B sends the wrapped asset back; C is a chain without ledger
ExportsOf(c, e) ==
    /\ e.Destination # c
    /\ e.Return \/ e.Reward = 0
    /\ e.Return \/ c = "A" \/ e.Asset # NativeAsset
    /\ e.Return => e.SwapIn = 0
    /\ e.Destination = "C" => e.Asset # NativeAsset

\* the program started with each consts package, then transactions decoded
NextRegistry ==
    \/ \E ids \in TypeIDTables : StartRegistry(ids)
    \/ \E id \in 0..MaxTypeID : DecodeAction(id)

SpecRegistry == Init /\ [][NextRegistry]_vars

\* concurrent callers of the faucet, and its timer
NextFaucet ==
    \/ \E c \in Callers, salt \in Salts, solution \in Solutions :
          SolveLock(c, salt, solution)
    \/ \E c \in Callers : SolveCheck(c)
    \/ \E c \in Callers, reply \in SendReplies : SolveSend(c, reply)
    \/ \E c \in Callers : SolveFinish(c)
    \/ \E justRolled \in BOOLEAN : UpdateDifficulty(justRolled)

SpecFaucet == Init /\ [][NextFaucet]_vars

\* solutions of either configuration's difficulty
ManagerSolutions == [salt : Salts, work : {1, Uint16 - 1}]

\* one caller of the faucet, its timer and its endpoint updates
NextManager ==
    \/ \E salt \in Salts, solution \in ManagerSolutions : SolveLock("c1", salt, solution)
    \/ SolveCheck("c1")
    \/ \E reply \in SendReplies : SolveSend("c1", reply)
    \/ SolveFinish("c1")
    \/ Tick
    \/ \E id \in 1..MaxTimers : TimerFire(id)
    \/ Run
    \/ \E r \in 1..MaxRuns : RunStop(r)
    \/ RestartStart
    \/ \E outcome \in UpdateOutcomes : UpdateNuklaiRPC(outcome)

SpecManager == InitManager /\ [][NextManager]_vars

\* the Run loops of the faucet, its timers and its endpoint updates
NextRuns ==
    \/ Tick
    \/ \E id \in 1..MaxTimers : TimerFire(id)
    \/ Run
    \/ \E r \in 1..MaxRuns : RunStop(r)
    \/ RestartRun
    \/ RestartStart
    \/ \E outcome \in UpdateOutcomes : UpdateNuklaiRPC(outcome)

SpecRuns == Init /\ [][NextRuns]_vars

\* the same under fair scheduling: time passes, a Dispatch loop whose timer is
\* due runs its handler, and the goroutines of Run and RestartRun go on when
\* they can; the program's own calls are not forced
SpecRunsFair ==
    /\ Init /\ [][NextRuns]_vars
    /\ WF_vars(Tick)
    /\ WF_vars(\E id \in 1..MaxTimers : TimerFire(id))
    /\ WF_vars(\E r \in 1..MaxRuns : RunStop(r))
    /\ WF_vars(RestartStart)

\* exports and imports on the two chains
NextWarp ==
    \/ \E c \in Chains, actor \in Addrs, e \in Exports :
          ExportsOf(c, e) /\ ExportAsset(c, actor, e)
    \/ \E c \in Chains, actor \in Addrs, id \in 1..MaxMsgs, fill \in BOOLEAN,
          t \in ImportTimes : ImportAsset(c, actor, id, fill, t)

SpecWarp == Init /\ [][NextWarp]_vars

(***************************************************************************)
(* Executions during which the store behind state.Mutable fails: every     *)
(* call on a failing key returns an error.                                 *)
(***************************************************************************)
\* the transactions executed over a failing store
IOTxs ==
    {WithdrawContext(actor, nodeBytes, GetLastAcceptedBlockTimestamp(emission), hostScope) :
        actor \in Addrs, nodeBytes \in RegisterNodes}
    \cup
    {DelegateContext(actor, nodeBytes, GetLastAcceptedBlockHeight(emission),
                     GetLastAcceptedBlockHeight(emission) + 1, 2, rewardAddress, hostScope) :
        actor \in Addrs, nodeBytes \in RegisterNodes, rewardAddress \in RewardAddrs}
    \cup
    {UnstakeContext(actor, stake, nodeBytes, hostScope) :
        actor \in Addrs, stake \in StakeIDs, nodeBytes \in RegisterNodes}

\* the keys that fail during one execution: none, or one of those it declares
FailingKeys(x) == {{}} \cup {{k} : k \in x.keys}

ExecuteFailing(x, failing) ==
    LET r == Execute([x EXCEPT !.failing = failing], State)
    IN  /\ mu' = r.st.mu
        /\ emission' = r.st.emission
        /\ out' = Outcome(r.x)
        /\ UNCHANGED <<hostScope, conc, packer, rest>>

NextIO ==
    \/ \E actor \in Addrs, nodeID \in RegisterNodes, stakeEndBlock \in StakeEnds,
          stakedAmount \in RegisterAmounts, rewardAddress \in RewardAddrs :
            RegisterValidatorStake(actor, nodeID, stakeEndBlock, stakedAmount, rewardAddress)
    \/ \E accrued \in [Nodes -> 0..1] : AcceptBlock(accrued)
    \/ \E x \in IOTxs : \E failing \in FailingKeys(x) : ExecuteFailing(x, failing)

SpecIO == Init /\ [][NextIO]_vars

\* a client asking for assets while the node creates and deletes them
NextAssets ==
    \/ \E asset \in ClientAssets, supply \in Supplies : NodeSetAsset(asset, supply)
    \/ \E asset \in ClientAssets : NodeDeleteAsset(asset)
    \/ \E asset \in ClientAssets, useCache \in BOOLEAN, fail \in BOOLEAN :
          Asset(asset, useCache, fail)

SpecAssets == Init /\ [][NextAssets]_vars

\* a client waiting for a transaction while the node accepts transactions
NextWait ==
    \/ \E id \in TxIDs, success \in BOOLEAN, fee \in Fees : NodeAcceptTx(id, success, fee)
    \/ \E txID \in TxIDs : WaitForTransaction(txID)
    \/ \E fail \in BOOLEAN : Poll(fail)
    \/ CancelWait
    \/ WaitCancelled

\* the loop of rpc.Wait goes on: it queries again, and it notices a cancelled
\* context
SpecWait ==
    /\ Init /\ [][NextWait]_vars
    /\ WF_vars(\E fail \in BOOLEAN : Poll(fail))
    /\ WF_vars(WaitCancelled)

(***************************************************************************)
(* Properties.                                                             *)
(***************************************************************************)
\* the inputs of the transactions of Next
WithdrawInputs == {<<actor, nodeBytes>> : actor \in Addrs, nodeBytes \in NodeIDInputs}

\* C1: whenever WithdrawValidatorStake.Execute succeeds on a validator record with
\* staked amount P, owner O and reward address R, O's balance grows by exactly P,
\* R's by exactly the reward the engine returned (P plus the reward when R = O),
\* and no validator stake record is left for the node id.
C1_WithdrawPaysOut ==
    [][\A i \in WithdrawInputs, clock \in Clocks(emission) :
        (/\ out'.op = "withdraw"
         /\ out'.success
         /\ WithdrawValidatorStake(i[1], i[2], clock)) =>
            LET nodeID == ToNodeID(i[2]).nodeID
                rec == mu.validator[nodeID]
                P == rec.stakedAmount
                O == rec.ownerAddress
                R == rec.rewardAddress
                reward == EmissionWithdrawValidatorStake(emission, nodeID).rewardAmount
            IN  /\ rec.exists
                /\ IF R = O
                   THEN mu'.balance[O] = mu.balance[O] + P + reward
                   ELSE /\ mu'.balance[O] = mu.balance[O] + P
                        /\ mu'.balance[R] = mu.balance[R] + reward
                /\ ~mu'.validator[nodeID].exists]_vars

\* a withdrawal that succeeded, paying a reward to an address other than the owner
C1_Witness ==
    /\ out.op = "withdraw"
    /\ out.success
    /\ out.rewardAmount > 0
    /\ out.undeclared # {}

\* C2: WithdrawValidatorStake or UnstakeValidator by an actor that is not the
\* recorded owner of the stake returns success=false with the unauthorized
\* rejection and changes neither the ledger nor the engine.
C2_NonOwnerRejected ==
    [][/\ \A i \in WithdrawInputs, clock \in Clocks(emission) :
            LET rec == mu.validator[ToNodeID(i[2]).nodeID]
            IN  (/\ out'.op = "withdraw"
                 /\ ~ToNodeID(i[2]).err
                 /\ rec.exists
                 /\ rec.ownerAddress # i[1]
                 /\ WithdrawValidatorStake(i[1], i[2], clock)) =>
                    /\ ~out'.success
                    /\ out'.output = "OutputUnauthorized"
                    /\ mu' = mu
                    /\ emission' = emission
       /\ \A actor \in Addrs, stake \in StakeIDs, nodeBytes \in NodeIDInputs :
            (/\ out'.op = "unstake"
             /\ mu.stake[stake].exists
             /\ mu.stake[stake].owner # actor
             /\ UnstakeValidator(actor, stake, nodeBytes)) =>
                /\ ~out'.success
                /\ out'.output = "OutputUnauthorized"
                /\ mu' = mu
                /\ emission' = emission]_vars

\* a withdrawal was refused as unauthorized while the validator is registered
C2_Witness ==
    /\ out.op = "withdraw"
    /\ out.output = "OutputUnauthorized"
    /\ \E n \in Nodes : mu.validator[n].exists

\* C3: for a validator registered with stakeEndBlock = E, a block height, a
\* withdrawal by the owner while the last accepted block height is below E fails
\* with the stake-not-started/ended rejection and changes no state.
C3_WithdrawBeforeEndBlockRejected ==
    [][\A i \in WithdrawInputs, clock \in Clocks(emission) :
        LET rec == mu.validator[ToNodeID(i[2]).nodeID]
        IN  (/\ out'.op = "withdraw"
             /\ ~ToNodeID(i[2]).err
             /\ rec.exists
             /\ rec.ownerAddress = i[1]
             /\ rec.stakeEndBlock <= MaxHeight
             /\ GetLastAcceptedBlockHeight(emission) < rec.stakeEndBlock
             /\ WithdrawValidatorStake(i[1], i[2], clock)) =>
                /\ ~out'.success
                /\ out'.output = "OutputStakeNotStarted"
                /\ mu' = mu
                /\ emission' = emission]_vars

\* C4: for every registered validator, a withdrawal by its owner once the current
\* height and time are at or after stakeEndBlock succeeds, whatever the reward
\* address and whatever withdrawals were rejected before.
C4_WithdrawAfterEndSucceeds ==
    [][\A i \in WithdrawInputs, clock \in Clocks(emission) :
        LET rec == mu.validator[ToNodeID(i[2]).nodeID]
        IN  (/\ out'.op = "withdraw"
             /\ ~ToNodeID(i[2]).err
             /\ rec.exists
             /\ rec.ownerAddress = i[1]
             /\ GetLastAcceptedBlockHeight(emission) >= rec.stakeEndBlock
             /\ GetLastAcceptedBlockTimestamp(emission) >= rec.stakeEndBlock
             /\ clock >= rec.stakeEndBlock
             /\ WithdrawValidatorStake(i[1], i[2], clock)) =>
                out'.success]_vars

\* C5: two executions of the same WithdrawValidatorStake with the same actor, the
\* same ledger and the same engine state return the same result and leave the
\* same state, whatever the executing node's wall clock shows.
C5_WithdrawIndependentOfClock ==
    \A i \in WithdrawInputs, c1 \in Clocks(emission), c2 \in Clocks(emission) :
        LET r1 == Execute(WithdrawContext(i[1], i[2], c1, hostScope), State)
            r2 == Execute(WithdrawContext(i[1], i[2], c2, hostScope), State)
        IN  /\ r1.x.ret = r2.x.ret
            /\ r1.st = r2.st

\* C6: every ledger key Execute reads or writes is among the keys StateKeys
\* declares for the same actor and action fields.
C6_TouchedKeysDeclared ==
    out.op \in {"withdraw", "delegate", "unstake"} => out.undeclared = {}

\* C7: when the host runs two executions concurrently only if their declared
\* StateKeys are disjoint, every interleaving of two WithdrawValidatorStake /
\* DelegateUserStake executions leaves the ledger that one of the two serial
\* orders leaves.
C7_InterleavingsSerializable ==
    conc.phase = "finished" =>
        \/ mu = Serial(conc.tx[1], conc.tx[2], conc.st0).mu
        \/ mu = Serial(conc.tx[2], conc.tx[1], conc.st0).mu

\* C8: a DelegateUserStake or WithdrawValidatorStake that returns success=false
\* leaves the ledger and the engine exactly as they were.
C8_RejectionChangesNothing ==
    [][(out'.op \in {"withdraw", "delegate"} /\ ~out'.success) =>
            (mu' = mu /\ emission' = emission)]_vars

\* C9: a validator stake record exists in the ledger for node N iff the engine
\* tracks validator N, and a delegator stake record exists for (owner, N) iff the
\* engine tracks that delegation.
C9_LedgerEngineConsistent ==
    /\ \A n \in Nodes : mu.validator[n].exists <=> emission.validators[n].tracked
    /\ \A p \in Addrs \X Nodes : mu.delegate[p].exists <=> p \in emission.delegators

\* C10: DelegateUserStake.Execute succeeds only if the validator has a stake
\* record, the actor has no delegation record for it, stakedAmount >=
\* MinDelegatorStake, stakeEndBlock > stakeStartBlock and stakeStartBlock >= the
\* engine's last accepted block height.
C10_DelegateSucceedsOnlyIfValid ==
    [][\A actor \in Addrs, nodeBytes \in DelegateNodeIDs,
          stakeStartBlock \in DelegateStarts(emission), stakedAmount \in DelegateAmounts,
          rewardAddress \in RewardAddrs :
        \A stakeEndBlock \in {stakeStartBlock, stakeStartBlock + 1} :
            (/\ out'.op = "delegate"
             /\ out'.success
             /\ DelegateUserStake(actor, nodeBytes, stakeStartBlock, stakeEndBlock,
                                  stakedAmount, rewardAddress)) =>
                /\ ~ToNodeID(nodeBytes).err
                /\ mu.validator[ToNodeID(nodeBytes).nodeID].exists
                /\ ~mu.delegate[<<actor, ToNodeID(nodeBytes).nodeID>>].exists
                /\ stakedAmount >= MinDelegatorStake
                /\ stakeEndBlock > stakeStartBlock
                /\ stakeStartBlock >= GetLastAcceptedBlockHeight(emission)]_vars

\* a delegation succeeded
C10_Witness ==
    /\ out.op = "delegate"
    /\ out.success

\* the inputs of the DelegateUserStake transactions of Next
DelegateInputs ==
    {<<actor, nodeBytes, stakeStartBlock, stakeEndBlock, stakedAmount, rewardAddress>> :
        actor \in Addrs, nodeBytes \in DelegateNodeIDs,
        stakeStartBlock \in 0..MaxHeight, stakeEndBlock \in 0..(MaxHeight + 1),
        stakedAmount \in DelegateAmounts, rewardAddress \in RewardAddrs}

\* C11: whenever DelegateUserStake.Execute succeeds, the actor's balance has
\* decreased by exactly stakedAmount, the delegator stake record keyed by
\* (actor, node id) holds the submitted stakeStartBlock, stakeEndBlock,
\* stakedAmount and rewardAddress, the engine has recorded the delegation, and no
\* other ledger key has changed.
C11_DelegateDebitsAndRecords ==
    [][out'.op = "delegate" => \A i \in DelegateInputs :
        (/\ out'.op = "delegate"
         /\ out'.success
         /\ out'.nodeID = ToNodeID(i[2]).nodeID
         /\ i[3] \in DelegateStarts(emission)
         /\ i[4] \in {i[3], i[3] + 1}
         /\ DelegateUserStake(i[1], i[2], i[3], i[4], i[5], i[6])) =>
            LET actor == i[1]
                nodeID == ToNodeID(i[2]).nodeID
                rec == mu'.delegate[<<actor, nodeID>>]
            IN  /\ mu'.balance[actor] = mu.balance[actor] - i[5]
                /\ rec.exists
                /\ rec.stakeStartBlock = i[3]
                /\ rec.stakeEndBlock = i[4]
                /\ rec.stakedAmount = i[5]
                /\ rec.rewardAddress = i[6]
                /\ <<actor, nodeID>> \in emission'.delegators
                /\ \A a \in Addrs \ {actor} : mu'.balance[a] = mu.balance[a]
                /\ \A q \in (Addrs \X Nodes) \ {<<actor, nodeID>>} :
                        mu'.delegate[q] = mu.delegate[q]
                /\ mu'.validator = mu.validator
                /\ mu'.stake = mu.stake]_vars

\* a delegation succeeded whose reward address is not the delegator
C11_Witness ==
    /\ out.op = "delegate"
    /\ out.success
    /\ \E q \in Addrs \X Nodes :
            /\ mu.delegate[q].exists
            /\ mu.delegate[q].rewardAddress # q[1]
            /\ mu.delegate[q].stakedAmount > 0

\* C12: DelegateUserStake to a node id that has no validator stake record fails
\* with the validator-not-yet-registered rejection, and the ledger and the engine
\* are unchanged.
C12_DelegateToUnregisteredRejected ==
    [][\A nodeID \in Nodes :
        (/\ out'.op = "delegate"
         /\ out'.nodeID = nodeID
         /\ ~mu.validator[nodeID].exists) =>
            /\ ~out'.success
            /\ out'.output = "OutputValidatorNotYetRegistered"
            /\ mu' = mu
            /\ emission' = emission]_vars

\* a delegation was refused because the validator has no stake record
C12_Witness ==
    /\ out.op = "delegate"
    /\ ~out.success
    /\ out.output = "OutputValidatorNotYetRegistered"

\* C13 as stated: a DelegateUserStake by an actor who already has a delegation
\* record for that validator is rejected as user-already-staked without changing
\* the ledger or the engine.
C13_SecondDelegationRejectedAsAlreadyStaked ==
    [][out'.op = "delegate" => \A i \in DelegateInputs :
        (/\ out'.op = "delegate"
         /\ ~ToNodeID(i[2]).err
         /\ out'.nodeID = ToNodeID(i[2]).nodeID
         /\ i[3] \in DelegateStarts(emission)
         /\ i[4] \in {i[3], i[3] + 1}
         /\ mu.delegate[<<i[1], ToNodeID(i[2]).nodeID>>].exists
         /\ DelegateUserStake(i[1], i[2], i[3], i[4], i[5], i[6])) =>
            /\ ~out'.success
            /\ out'.output = "OutputUserAlreadyStaked"
            /\ mu' = mu
            /\ emission' = emission]_vars

\* C13: a DelegateUserStake by an actor who already has a delegation record for
\* that validator is rejected without changing the existing record, the balances
\* or the engine: as user-already-staked while the validator's stake record
\* exists, as validator-not-yet-registered once it has been withdrawn.
C13_SecondDelegationRejected ==
    [][out'.op = "delegate" => \A i \in DelegateInputs :
        (/\ out'.op = "delegate"
         /\ ~ToNodeID(i[2]).err
         /\ out'.nodeID = ToNodeID(i[2]).nodeID
         /\ i[3] \in DelegateStarts(emission)
         /\ i[4] \in {i[3], i[3] + 1}
         /\ mu.delegate[<<i[1], ToNodeID(i[2]).nodeID>>].exists
         /\ DelegateUserStake(i[1], i[2], i[3], i[4], i[5], i[6])) =>
            /\ ~out'.success
            /\ out'.output = IF mu.validator[ToNodeID(i[2]).nodeID].exists
                             THEN "OutputUserAlreadyStaked"
                             ELSE "OutputValidatorNotYetRegistered"
            /\ mu' = mu
            /\ emission' = emission]_vars

\* a second delegation was refused as user-already-staked
C13_Witness ==
    /\ out.op = "delegate"
    /\ ~out.success
    /\ out.output = "OutputUserAlreadyStaked"
    /\ \E q \in Addrs \X Nodes : mu.delegate[q].exists

\* C14: validator stake records go Unregistered -> Registered -> Withdrawn with
\* no re-entry: a successful WithdrawValidatorStake for node N leaves no record
\* for N, only a registration creates a record, and a WithdrawValidatorStake for
\* a node without a record is rejected and credits no balance, so principal and
\* reward are paid at most once per registration.
C14_WithdrawnIsTerminal ==
    [][/\ \A n \in Nodes :
            (~mu.validator[n].exists /\ mu'.validator[n].exists) => out'.op = "register"
       /\ \A nodeID \in Nodes :
            (out'.op = "withdraw" /\ out'.nodeID = nodeID) =>
                /\ out'.success => ~mu'.validator[nodeID].exists
                /\ ~mu.validator[nodeID].exists =>
                        /\ ~out'.success
                        /\ mu'.balance = mu.balance]_vars

\* a withdrawal for a node without a record was rejected after an earlier
\* withdrawal had paid out a reward
C14_Witness ==
    /\ out.op = "withdraw"
    /\ ~out.success
    /\ out.output = "OutputValidatorAlreadyRegistered"
    /\ out.nodeID \in RegisterNodes
    /\ mu.balance["a1"] + mu.balance["a2"] > GenesisBalance["a1"] + GenesisBalance["a2"]

\* C15: a storage I/O failure met while Execute of DelegateUserStake,
\* WithdrawValidatorStake or UnstakeValidator reads or writes the ledger is
\* returned as a non-nil error; it is never ignored and never turned into a
\* success=false rejection with a nil error.
C15_StorageFailureIsFatal ==
    (out.op \in {"withdraw", "delegate", "unstake"} /\ "ErrStorageIO" \in out.storageErr) =>
        out.err # "nil"

\* C16: every domain-rule rejection of DelegateUserStake, WithdrawValidatorStake
\* and UnstakeValidator returns success=false with a non-empty output payload
\* and a nil error.
C16_RejectionsArePayloads ==
    (out.op \in {"withdraw", "delegate", "unstake"} /\ out.output \in DomainRejections) =>
        /\ ~out.success
        /\ ~OutputEmpty(out.output)
        /\ out.err = "nil"

\* an UnstakeValidator by the owner was rejected for naming another node id
C16_Witness ==
    /\ out.op = "unstake"
    /\ out.output = "OutputDifferentNodeIDThanStaked"
    /\ ~out.success

C18_UnstakeChecksInOrder ==
    [][\A actor \in Addrs, stake \in StakeIDs, nodeBytes \in NodeIDInputs :
        (/\ out'.op = "unstake"
         /\ out'.nodeID = ToNodeID(nodeBytes).nodeID
         /\ UnstakeValidator(actor, stake, nodeBytes)) =>
            LET rec == mu.stake[stake]
            IN  /\ out'.success <=>
                        (rec.exists /\ rec.owner = actor /\ rec.nodeID = nodeBytes)
                /\ out'.output =
                        IF ~rec.exists THEN "OutputStakeMissing"
                        ELSE IF rec.owner # actor THEN "OutputUnauthorized"
                        ELSE IF rec.nodeID # nodeBytes THEN "OutputDifferentNodeIDThanStaked"
                        ELSE "nil"
                /\ mu' = mu
                /\ emission' = emission]_vars

\* an UnstakeValidator by the owner, naming the staked node id, succeeded
C18_Witness ==
    /\ out.op = "unstake"
    /\ out.success
    /\ \E s \in StakeIDs : mu.stake[s].exists /\ mu.stake[s].nodeID = out.nodeID

\* the action values an execution can accept: a NodeID of node-id length (or, for
\* UnstakeValidator, any NodeID the decoder's limit admits, the empty one
\* included), a block range and an amount DelegateUserStake.Execute accepts at
\* some height, a reward address and a stake id that are set
ValidValue(a) ==
    CASE a.op = "withdraw" -> a.NodeID.len = NodeIDLen
      [] a.op = "delegate" ->
            /\ a.NodeID.len = NodeIDLen
            /\ ~DelegateAmountInvalid(a.StakedAmount)
            /\ ~DelegateEndBlockInvalid(a.StakeStartBlock, a.StakeEndBlock)
            /\ a.RewardAddress # EmptyAddress
      [] a.op = "unstake" -> a.NodeID.len <= NodeIDLen /\ a.Stake # EmptyID
      [] OTHER -> FALSE

\* C19: for DelegateUserStake, WithdrawValidatorStake and UnstakeValidator,
\* Unmarshal applied to the bytes Marshal wrote returns an action equal to the
\* original for all valid field values, a NodeID of exactly node-id length and an
\* empty NodeID where the decoder permits it included; a NodeID longer than the
\* node-id length is rejected by Unmarshal.
C19_UnmarshalInvertsMarshal ==
    /\ ValidValue(packer.action) =>
            /\ packer.decoded.err = "nil"
            /\ packer.decoded.action = packer.action
    /\ (packer.action.op # "none" /\ packer.action.NodeID.len > NodeIDLen) =>
            packer.decoded.err # "nil"

\* C20: for DelegateUserStake, WithdrawValidatorStake and UnstakeValidator,
\* Size() is the number of bytes Marshal writes, for every valid action value.
C20_SizeIsMarshalledLength ==
    ValidValue(packer.action) => packer.size = WireLen(packer.wire)

RECURSIVE SumBalances(_, _)
\* the sum of the balances bal holds for the addresses of as
SumBalances(bal, as) ==
    IF as = {} THEN 0
    ELSE LET a == CHOOSE b \in as : TRUE
         IN  bal[a] + SumBalances(bal, as \ {a})

\* the addresses a genesis allocates to
Allocated(g) ==
    {ParseAddressBech32(HRP, g.CustomAllocation[k].Address).addr :
        k \in 1..Len(g.CustomAllocation)}

\* C21: after Genesis.Load succeeds, the native asset's recorded supply equals
\* the sum over all addresses of their native balance, for every allocation
\* list, lists naming an address more than once included, and each allocated
\* address holds a native balance.
C21_GenesisSupplyIsSumOfBalances ==
    (gen.loaded /\ gen.err = "nil") =>
        /\ gen.m.asset.exists
        /\ gen.m.asset.supply = SumBalances(gen.m.balance, Addrs)
        /\ Allocated(gen.g) \subseteq gen.m.written

RECURSIVE SumAllocations(_)
\* the sum of the balances an allocation list names
SumAllocations(allocs) ==
    IF allocs = <<>> THEN 0 ELSE Head(allocs).Balance + SumAllocations(Tail(allocs))

\* allocation k of the list cannot be loaded: its address does not parse, or
\* the sum of the balances up to it is beyond uint64
AllocationFails(allocs, k) ==
    \/ allocs[k].Address.hrp # HRP
    \/ SumAllocations(SubSeq(allocs, 1, k)) > MaxUint

\* the balance address a holds once the first n allocations are written: that of
\* the last of them naming a
BalanceAfter(allocs, n, a) ==
    LET ks == {k \in 1..n : allocs[k].Address = Bech32(HRP, a)}
    IN  IF ks = {} THEN 0
        ELSE allocs[CHOOSE k \in ks : \A j \in ks : j <= k].Balance

\* C22: Genesis.Load returns an error when the state branch factor is invalid,
\* before writing anything, when an allocation address is not valid bech32, or
\* when the running sum of the balances overflows uint64; whenever it returns an
\* error the native asset record has not been written and the failing
\* allocation's balance has not been written.
C22_GenesisLoadFailsFast ==
    gen.loaded =>
        LET allocs == gen.g.CustomAllocation
            failing == {k \in 1..Len(allocs) : AllocationFails(allocs, k)}
        IN  /\ ~gen.g.StateBranchFactorValid =>
                    (gen.err # "nil" /\ gen.m = EmptyLedger)
            /\ failing # {} => gen.err # "nil"
            /\ gen.err # "nil" => ~gen.m.asset.exists
            /\ (gen.g.StateBranchFactorValid /\ failing # {}) =>
                    LET first == CHOOSE k \in failing : \A j \in failing : k <= j
                    IN  \A a \in Addrs :
                            gen.m.balance[a] = BalanceAfter(allocs, first - 1, a)

\* a Load stopped at its second allocation, the first being written
C22_Witness ==
    /\ gen.loaded
    /\ gen.err = "ErrOverflow"
    /\ gen.m.written # {}
    /\ ~gen.m.asset.exists

\* the sum of all accounts' balances of an asset on a ledger
RECURSIVE SumOver(_, _, _)
SumOver(l, asset, addrs) ==
    IF addrs = {} THEN 0
    ELSE LET a == CHOOSE x \in addrs : TRUE
         IN  l.balance[<<a, asset>>] + SumOver(l, asset, addrs \ {a})
TotalBalance(l, asset) == SumOver(l, asset, Addrs)

\* the fee a transaction of chain c costs in the given asset
FeeIn(asset) == IF asset = NativeAsset THEN TxFee ELSE 0

\* C23: a successful Transfer of v from S to another account R lowers S's
\* balance of the asset by v (and the fee, for the native asset) and raises
\* R's by v; every Transfer changes the sum of the balances of an asset by
\* the fee only.
C23_TransferConserves ==
    [][chains'.last.op = "transfer" /\ chains' # chains =>
        LET t == chains'.last
            before == chains.ledger[t.chain]
            after == chains'.ledger[t.chain]
        IN  /\ \A a \in AssetIDs :
                  TotalBalance(after, a) = TotalBalance(before, a) - FeeIn(a)
            /\ t.success /\ t.input.To # t.actor =>
                  /\ after.balance[<<t.actor, t.input.Asset>>] =
                        before.balance[<<t.actor, t.input.Asset>>] - t.input.Value
                            - FeeIn(t.input.Asset)
                  /\ after.balance[<<t.input.To, t.input.Asset>>] =
                        before.balance[<<t.input.To, t.input.Asset>>] + t.input.Value
                  /\ after.balance[<<t.actor, NativeAsset>>] =
                        before.balance[<<t.actor, NativeAsset>>] - TxFee
                            - (IF t.input.Asset = NativeAsset THEN t.input.Value ELSE 0)]_vars

C23_Witness ==
    /\ chains.last.op = "transfer"
    /\ chains.last.success
    /\ chains.last.input.To # chains.last.actor
    /\ chains.last.input.Asset # NativeAsset
    /\ chains.last.input.Value > 0

\* C24: on every chain the loan of (asset, destination) is the total value
\* exported to the destination without Return less the total value + reward
\* imported back from it with Return. Step by step: a successful export of v
\* without Return raises the loan by v and debits the exporter by v (and the
\* fee); a successful import of a returned message lowers the loan by
\* value + reward.
C24_LoanIsExportedLessReturned ==
    /\ [](\A c \in Chains, k \in AssetIDs \X Destinations :
            chains.ledger[c].loan[k] = chains.exported[c][k] - chains.returned[c][k])
    /\ [][chains' # chains /\ chains'.last.success =>
        LET t == chains'.last
            before == chains.ledger[t.chain]
            after == chains'.ledger[t.chain]
        IN  /\ t.op = "export" /\ ~t.input.Return =>
                LET k == <<t.input.Asset, t.input.Destination>>
                IN  /\ after.loan[k] = before.loan[k] + t.input.Value
                    /\ after.balance[<<t.actor, t.input.Asset>>] =
                          before.balance[<<t.actor, t.input.Asset>>] - t.input.Value
                              - FeeIn(t.input.Asset)
            /\ t.op = "import" /\ chains.msgs[t.input.id].Return =>
                LET msg == chains.msgs[t.input.id]
                    k == <<msg.Asset, msg.source>>
                IN  after.loan[k] = before.loan[k] - (msg.Value + msg.Reward)]_vars

\* everything lent to chain B has come back, with a reward, and the loan is zero
C24_Witness ==
    /\ chains.exported["A"][<<NativeAsset, "B">>] = 2
    /\ chains.returned["A"][<<NativeAsset, "B">>] = 2
    /\ chains.ledger["A"].loan[<<NativeAsset, "B">>] = 0
    /\ chains.last.op = "import"
    /\ chains.last.success
    /\ chains.msgs[chains.last.input.id].Reward = 1

\* what an import of a non-return message of value v leaves on the importing
\* chain: the wrapped asset recorded with v more supply, no owner and the warp
\* flag, and native balances changed by the importer's fee only
Minted(before, after, actor, msg) ==
    LET a == ImportedAssetID(msg.Asset, msg.source)
    IN  /\ after.asset[a] = [exists |-> TRUE, supply |-> before.asset[a].supply + msg.Value,
                             owner |-> EmptyAddress, warp |-> TRUE]
        /\ \A addr \in Addrs :
              after.balance[<<addr, NativeAsset>>] =
                before.balance[<<addr, NativeAsset>>] - (IF addr = actor THEN TxFee ELSE 0)

OnlyFeePaid(before, after, actor) ==
    \A addr \in Addrs, a \in AssetIDs :
        after.balance[<<addr, a>>] =
            before.balance[<<addr, a>>] - (IF addr = actor THEN FeeIn(a) ELSE 0)

\* C26: a successful export with Return of value v and reward r of a wrapped
\* asset debits the exporter by v + r of it, lowers its supply by v + r,
\* records no loan and deletes the asset record when the supply reaches zero;
\* an export without Return of a wrapped asset to a chain other than its
\* origin fails and changes no balance but for the fee.
C26_ReturnExportBurns ==
    [][chains' # chains /\ chains'.last.op = "export" =>
        LET t == chains'.last
            e == t.input
            before == chains.ledger[t.chain]
            after == chains'.ledger[t.chain]
        IN  /\ t.success /\ e.Return =>
                /\ before.asset[e.Asset].warp
                /\ after.balance[<<t.actor, e.Asset>>] =
                      before.balance[<<t.actor, e.Asset>>] - (e.Value + e.Reward)
                /\ after.loan = before.loan
                /\ IF before.asset[e.Asset].supply = e.Value + e.Reward
                   THEN ~after.asset[e.Asset].exists
                   ELSE after.asset[e.Asset] =
                          [before.asset[e.Asset] EXCEPT !.supply = @ - (e.Value + e.Reward)]
            /\ ~e.Return /\ before.asset[e.Asset].warp /\ e.Destination # e.Asset.origin =>
                /\ ~t.success
                /\ OnlyFeePaid(before, after, t.actor)
                /\ after.asset = before.asset
                /\ after.loan = before.loan]_vars

\* the whole supply of the wrapped asset went back, part of it as a reward
C26_Witness ==
    /\ chains.last.op = "export"
    /\ chains.last.success
    /\ chains.last.input.Return
    /\ chains.last.input.Reward = 1
    /\ ~chains.ledger[chains.last.chain].asset[chains.last.input.Asset].exists

C30_FundedOncePerSalt ==
    /\ []~faucet.resent
    /\ [][\A c \in Callers :
            LET call == faucet.calls[c]
                after == faucet'.calls[c]
                expired == call.salt # faucet.salt
                invalid == ~(call.solution.salt = call.salt
                                /\ call.solution.work >= faucet.difficulty)
                duplicate == ToID(call.solution) \in faucet.solutions
            IN  /\ call.pc = "sending" /\ after.pc = "sent" =>
                    /\ ~expired /\ ~invalid /\ ~duplicate
                    /\ faucet'.sent = faucet.sent \cup {<<faucet.salt, ToID(call.solution)>>}
                /\ call.pc = "locked" /\ after.pc # "locked" =>
                    IF expired \/ invalid \/ duplicate
                    THEN /\ after.pc = "idle"
                         /\ after.err = (IF expired THEN "salt expired"
                                         ELSE IF invalid THEN "invalid solution"
                                         ELSE "duplicate solution")
                         /\ faucet'.sent = faucet.sent
                         /\ faucet'.salt = faucet.salt
                         /\ faucet'.difficulty = faucet.difficulty
                         /\ faucet'.solutions = faucet.solutions
                    ELSE after.pc = "sending"
                /\ faucet'.sent # faucet.sent =>
                    \E d \in Callers : faucet.calls[d].pc = "sending"]_vars

\* a solution was paid and its second submission refused as a duplicate
C30_Witness ==
    /\ faucet.sent # {}
    /\ \E c \in Callers : faucet.calls[c].err = "duplicate solution"

\* C29: after a successful Genesis.Load, the native asset's recorded supply does
\* not exceed the configured EmissionBalancer.MaxSupply.
C29_GenesisSupplyWithinMaxSupply ==
    (gen.loaded /\ gen.err = "nil") => gen.m.asset.supply <= gen.g.MaxSupply

\* C31: in every state of the faucet the difficulty is at least
\* config.StartDifficulty, after any SolveChallenge, updateDifficulty and
\* UpdateNuklaiRPC calls, also when the uint16 difficulty is incremented at
\* its largest value.
C31_DifficultyAtLeastStart ==
    faucet.difficulty >= faucet.config.StartDifficulty

\* a funded SolveChallenge of caller c records the solution that fills the set
Filling(c) ==
    /\ faucet.calls[c].pc = "sent"
    /\ faucet'.calls[c].pc = "idle"
    /\ Cardinality(faucet.solutions \cup {ToID(faucet.calls[c].solution)})
          >= faucet.config.SolutionsPerSalt

\* C32: when a funded SolveChallenge brings the recorded solutions to
\* config.SolutionsPerSalt, the difficulty increases by exactly one, the salt
\* is replaced, the solutions set is emptied and the timer is set again for
\* TargetDurationPerSalt; so between operations the set holds fewer than
\* SolutionsPerSalt solutions, all accepted under the current salt.
C32_FillingRolls ==
    /\ [](faucet.l = "free" =>
            /\ Cardinality(faucet.solutions) < faucet.config.SolutionsPerSalt
            /\ \A id \in faucet.solutions : id[2] = faucet.salt)
    /\ [][\A c \in Callers :
            Filling(c) =>
                /\ faucet'.difficulty = faucet.difficulty + 1
                /\ faucet'.salt # faucet.salt
                /\ faucet'.solutions = {}
                /\ faucet'.last.op = "roll"
                /\ faucet'.timers[faucet'.t].armed
                /\ faucet'.timers[faucet'.t].remaining = faucet.config.TargetDurationPerSalt]_vars

\* C33: when sendFunds fails inside SolveChallenge (parser or transaction
\* generation error, fee above the amount, balance below maxFee + amount, or
\* submit error), the call returns that error, the solution is not recorded,
\* and salt, difficulty and lastRotation are unchanged, so the same solution
\* passes the checks again under the same salt.
C33_FailedSendChangesNothing ==
    [][\A c \in Callers :
        LET call == faucet.calls[c]
        IN  (call.pc = "sending" /\ faucet'.calls[c].pc = "idle") =>
                /\ faucet'.calls[c].err \in SendErrors
                /\ faucet'.l = "free"
                /\ faucet'.solutions = faucet.solutions
                /\ ToID(call.solution) \notin faucet'.solutions
                /\ faucet'.sent = faucet.sent
                /\ faucet'.salt = faucet.salt
                /\ faucet'.difficulty = faucet.difficulty
                /\ faucet'.elapsed = faucet.elapsed
                /\ faucet'.timers = faucet.timers
                /\ SolveRejection(faucet', call.salt, call.solution) = "nil"]_vars

\* a call failed for want of balance, and a later call was paid
C33_Witness ==
    \E c, d \in Callers :
        /\ faucet.calls[c].err = "insufficient balance"
        /\ faucet.calls[d].pc = "sent"
        /\ faucet.sent = {<<faucet.calls[d].salt, ToID(faucet.calls[d].solution)>>}

\* what updateDifficulty does when it is not too early: the difficulty is
\* lowered by one only if no solution was accepted and it is above
\* StartDifficulty, the salt is replaced, the solutions set emptied,
\* lastRotation set to now and the timer set again
Rotated ==
    /\ faucet'.difficulty =
          IF faucet.solutions = {} /\ faucet.difficulty > faucet.config.StartDifficulty
          THEN faucet.difficulty - 1 ELSE faucet.difficulty
    /\ faucet'.salt # faucet.salt
    /\ faucet'.solutions = {}
    /\ faucet'.elapsed = 0
    /\ faucet'.timers[faucet'.t].armed
    /\ faucet'.timers[faucet'.t].remaining = faucet.config.TargetDurationPerSalt

\* what updateDifficulty does when it is too early: nothing
Untouched ==
    /\ faucet'.difficulty = faucet.difficulty
    /\ faucet'.salt = faucet.salt
    /\ faucet'.solutions = faucet.solutions
    /\ faucet'.elapsed = faucet.elapsed
    /\ faucet'.timers[faucet'.t].remaining = faucet.timers[faucet.t].remaining

\* C34: updateDifficulty does nothing when less than half of
\* TargetDurationPerSalt has elapsed since lastRotation; otherwise it lowers the
\* difficulty by exactly one only if no solution was accepted in the period
\* and the difficulty is above StartDifficulty, and always then replaces the
\* salt, empties the solutions set, sets lastRotation to now and sets the
\* timer again.
C34_UpdateDifficultyByHalf ==
    [][faucet'.last.fired # faucet.last.fired =>
        IF 2 * faucet'.last.waited < faucet.config.TargetDurationPerSalt
        THEN Untouched ELSE Rotated]_vars

\* the Run loops that have not returned, and the timers with a Dispatch loop
ActiveRuns == {r \in 1..MaxRuns : faucet.runs[r].pc \in {"waiting", "stopping"}}
Dispatching == {id \in 1..MaxTimers : faucet.timers[id].dispatchers > 0}

\* C35: RestartRun stops the running Run loop and waits for it before it
\* starts the new one, so after any Run, RestartRun and UpdateNuklaiRPC calls
\* at most one Run loop and at most one dispatching timer are active, and a
\* cancelled Run stops the timer it set, not the timer of its successor.
C35_OneRunLoopOneTimer ==
    /\ [](Cardinality(ActiveRuns) <= 1 /\ Cardinality(Dispatching) <= 1)
    /\ [][\A r \in 1..MaxRuns :
            (faucet.runs[r].pc = "waiting" /\ faucet'.runs[r].pc # "waiting") =>
                /\ faucet'.timers[faucet.runs[r].timer].finished
                /\ \A id \in 1..MaxTimers :
                      id # faucet.runs[r].timer => faucet'.timers[id] = faucet.timers[id]]_vars

\* a Run loop is waiting for its context to be cancelled
Running == \E r \in 1..MaxRuns : faucet.runs[r].pc = "waiting"

\* C36: while a Run loop is active, under fair scheduling every salt is
\* followed by another one (updateDifficulty or a roll of SolveChallenge comes
\* after every rotation), after any rolls, early returns of updateDifficulty
\* and UpdateNuklaiRPC calls: the timer is never left un-armed or stopped for
\* good.
C36_SaltKeepsRotating ==
    \A k \in 0..(MaxSalt - 1) :
        (Running /\ faucet.salt = k) ~> (~Running \/ faucet.salt # k)

\* C37: Asset with useCache = true never reports an asset as existing after
\* an earlier Asset call of the same client got asset-not-found for it from
\* the node (and no later call found it); with useCache = false it always
\* queries the node and stores a found reply in the cache.
C37_NoAssetAfterNotFound ==
    client.last.op = "Asset" =>
        /\ (client.last.useCache /\ client.last.exists) =>
                client.last.asset \notin client.notFound
        /\ ~client.last.useCache =>
                /\ client.last.queried
                /\ client.last.exists =>
                      client.assets[client.last.asset] =
                          [exists |-> TRUE, supply |-> client.last.supply]

\* C38: WaitForTransaction returns without error only after a Tx query found
\* the transaction, and then returns that query's success flag and fee; a
\* tx-not-found reply counts as not found with no error and polling goes on,
\* any other error ends the wait with that error, and once the node has the
\* transaction the wait ends.
C38_WaitReturnsTheFoundTx ==
    /\ []((client.wait.pc = "returned" /\ client.wait.err = Nil) =>
            /\ client.wait.raw = Nil /\ client.wait.reply.found
            /\ client.node.txs[client.wait.txID].found
            /\ client.wait.success = client.node.txs[client.wait.txID].success
            /\ client.wait.fee = client.node.txs[client.wait.txID].fee)
    /\ [][(/\ client.wait.pc = "polling"
           /\ client'.wait # client.wait
           /\ client.wait.ctx = "live" /\ client'.wait.ctx = "live") =>
            IF client'.wait.raw = Reply(ErrTxNotFound)
            THEN /\ client'.wait.pc = "polling" /\ client'.wait.err = Nil
                 /\ ~client'.wait.reply.found
            ELSE IF client'.wait.raw # Nil
            THEN /\ client'.wait.pc = "returned"
                 /\ client'.wait.err = client'.wait.raw
            ELSE client'.wait.pc = "returned" /\ client'.wait.err = Nil]_vars
    /\ (client.wait.pc = "polling" /\ client.node.txs[client.wait.txID].found)
          ~> (client.wait.pc = "returned")

\* a wait has returned, without error, the success flag and the fee of a
\* transaction that failed
C38_Witness ==
    /\ client.wait.pc = "returned" /\ client.wait.err = Nil
    /\ client.wait.raw = Nil /\ client.wait.reply.found
    /\ ~client.wait.success /\ client.wait.fee = 2

====
